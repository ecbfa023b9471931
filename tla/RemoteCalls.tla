------------------------------ MODULE RemoteCalls ------------------------------
(***************************************************************************)
(* What the client interface promises: a request is carried out at most    *)
(* once, at one moment after it was issued, and what a client gets back    *)
(* from a call that does not fail is the outcome of that very request.  A  *)
(* call may fail at any time, in which case its request may still be       *)
(* carried out later.                                                      *)
(***************************************************************************)
CONSTANTS Clients,              \* the clients
          Requests,             \* the requests a client can make
          Effects(_, _, _),     \* Effects(r, id, store): the possible outcomes of request r
          Ids(_),               \* the ids a client gives its requests
          Store,                \* the states of the file store
          Failed                \* what a failed call returns

VARIABLES store,    \* the files of the proxy
          issued,   \* the requests issued so far, [id, req]
          log,      \* the requests carried out so far, [id, out]
          call,     \* the request each client waits for
          result    \* what the last call of each client returned

callVars == <<store, issued, log, call, result>>

NoCall == [id |-> <<>>]

CallInit == /\ store \in Store
            /\ issued = {}
            /\ log = {}
            /\ call = [c \in Clients |-> NoCall]
            /\ result = [c \in Clients |-> Failed]

\* A client issues a request under a new id.
Issue(c) ==
    /\ call[c] = NoCall
    /\ call'[c] # NoCall
    /\ call'[c].id \in Ids(c)
    /\ call'[c].req \in Requests
    /\ call' = [call EXCEPT ![c] = call'[c]]
    /\ \A e \in issued : e.id # call'[c].id
    /\ issued' = issued \cup {call'[c]}
    /\ UNCHANGED <<store, log, result>>

\* An issued request is carried out, once.
Do == \E e \in issued :
        /\ \A l \in log : l.id # e.id
        /\ \E out \in Effects(e.req, e.id, store) :
              /\ store' = out.store
              /\ log' = log \cup {[id |-> e.id, ok |-> out.ok, size |-> out.size, data |-> out.data]}
        /\ UNCHANGED <<issued, call, result>>

\* What the caller gets from outcome l of request r.  A read into a cache file
\* takes the file's size before it reads it and is promised no size.
Reports(r, l, res) ==
    /\ res.ok = l.ok
    /\ l.ok /\ ~r.cached => res.size = l.size /\ res.data = l.data

Return(c) ==
    /\ call[c] # NoCall
    /\ call' = [call EXCEPT ![c] = NoCall]
    /\ \/ result' = [result EXCEPT ![c] = Failed]
       \/ \E l \in log : /\ l.id = call[c].id
                         /\ Reports(call[c].req, l, result'[c])
                         /\ result' = [result EXCEPT ![c] = result'[c]]
    /\ UNCHANGED <<store, issued, log>>

CallNext == Do \/ \E c \in Clients : Issue(c) \/ Return(c)

CallSpec == CallInit /\ [][CallNext]_callVars
================================================================================
