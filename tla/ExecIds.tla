------------------------------ MODULE ExecIds ------------------------------
\* The names the exec components share: item ids, chosen by the client, state
\* tokens, chosen by the store, and a value that is neither.
CONSTANTS
    Items,       \* item ids
    Tokens,      \* state tokens that may be issued
    None         \* no item, no token

ASSUME IdsAssumption == None \notin Items \cup Tokens
============================================================================
