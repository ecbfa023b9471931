------------------------------ MODULE MCStaging ------------------------------
EXTENDS Staging

\* With the cleaner and without changes in place; with a storage that fails to
\* pin, mark or fill a file; with changes in place and no cleaner; and with a
\* directory that cannot be written.
MCModes ==
    {[clean |-> TRUE, staging |-> TRUE, kinds |-> {"write", "delete"}, faults |-> {"cloud", "crash"}],
     [clean |-> TRUE, staging |-> TRUE, kinds |-> {"write"}, faults |-> {"pin", "mark", "fill"}],
     [clean |-> FALSE, staging |-> TRUE,
      kinds |-> {"write", "append", "overwrite"}, faults |-> {"cloud", "meta", "fill"}],
     [clean |-> TRUE, staging |-> FALSE,
      kinds |-> {"write", "empty", "append", "overwrite", "delete"}, faults |-> {"cloud", "meta"}]}

=============================================================================
