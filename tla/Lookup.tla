------------------------------- MODULE Lookup -------------------------------
(***************************************************************************)
(* What a remote name server promises to its clients: an answer to a query *)
(* is what the queried processor's table held for the name at one moment   *)
(* between the query and the answer, or "not found" when that processor    *)
(* does not answer queries at that moment.                                 *)
(***************************************************************************)
CONSTANTS Clients,      \* who asks
          Procs,        \* whom they ask
          Names,        \* what they ask for
          Values,       \* what is stored
          NotFound,     \* the answer when there is nothing
          Unknown       \* no answer yet, or nothing asked

VARIABLES table,        \* what each processor holds for each name
          listens,      \* who answers whose queries
          query,        \* what each client asks: a processor and a name
          answer        \* what it is going to be told

lookupVars == <<table, listens, query, answer>>

Tables  == [Procs -> [Names -> Values \cup {NotFound}]]
Queries == [from : Procs, to : Procs, name : Names]

LookupInit ==
    /\ table \in Tables /\ listens \in SUBSET (Procs \X Procs)
    /\ query = [c \in Clients |-> Unknown] /\ answer = [c \in Clients |-> Unknown]

\* Entries are added and removed; processors start to answer one another.
Change == /\ table' \in Tables
          /\ UNCHANGED <<listens, query, answer>>
Listen == /\ listens' \in SUBSET (Procs \X Procs) /\ listens \subseteq listens'
          /\ UNCHANGED <<table, query, answer>>

\* Who was told that there is nothing may ask elsewhere without returning.
Ask(c) ==
    /\ query[c] = Unknown \/ answer[c] = NotFound
    /\ \E q \in Queries : query' = [query EXCEPT ![c] = q]
    /\ answer' = [answer EXCEPT ![c] = Unknown]
    /\ UNCHANGED <<table, listens>>

Answer(c) ==
    /\ query[c] # Unknown /\ answer[c] = Unknown
    /\ answer' = [answer EXCEPT ![c] = table[query[c].to][query[c].name]]
    /\ UNCHANGED <<table, listens, query>>

Refuse(c) ==
    /\ query[c] # Unknown /\ answer[c] = Unknown
    /\ <<query[c].to, query[c].from>> \notin listens
    /\ answer' = [answer EXCEPT ![c] = NotFound]
    /\ UNCHANGED <<table, listens, query>>

Return(c) ==
    /\ answer[c] # Unknown
    /\ query' = [query EXCEPT ![c] = Unknown]
    /\ answer' = [answer EXCEPT ![c] = Unknown]
    /\ UNCHANGED <<table, listens>>

LookupNext == \/ Change \/ Listen
              \/ \E c \in Clients : Ask(c) \/ Answer(c) \/ Refuse(c) \/ Return(c)

LookupSpec == LookupInit /\ [][LookupNext]_lookupVars
=============================================================================
