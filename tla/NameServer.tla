----------------------------- MODULE NameServer -----------------------------
(***************************************************************************)
(* packages/ti/sdo/utils/NameServer.c: the table of one NameServer         *)
(* instance on every processor.  Owners (threads of a processor) add and   *)
(* remove name/value pairs; look-ups come from threads and from the Swi    *)
(* that serves other processors.                                           *)
(*                                                                         *)
(* The module's GateSwi makes a look-up and a removal atomic; adding tests *)
(* the table under the gate, leaves it, and then takes a free entry and    *)
(* puts it on the list in two more steps.  The instance has maxRuntime-    *)
(* Entries entries (not NameServer_ALLOWGROWTH); static ones come first    *)
(* and cannot be removed.                                                  *)
(***************************************************************************)
EXTENDS Naturals, Sequences, FiniteSets

CONSTANTS numProcessors,    \* of MultiProc
          Names,            \* names of entries
          Versions,         \* what tells the values of one name apart
          Owners,           \* threads that add and remove entries
          home,             \* processor of each thread
          numDynamic,       \* entries that can be added on each processor
          checkExisting,    \* names are looked for before they are added
          StaticTable,      \* static entries of each processor
          NotFound          \* result of a look-up that finds nothing

Procs   == 0 .. numProcessors - 1
Values  == Names \X Versions       \* a value names the entry it was stored under
Entries == [name : Names, value : Values]

ASSUME TableAssumption ==
    /\ numProcessors \in Nat \ {0} /\ numDynamic \in Nat /\ checkExisting \in BOOLEAN
    /\ Names # {} /\ Versions # {} /\ IsFiniteSet(Owners)
    /\ \A o \in Owners : home[o] \in Procs
    /\ StaticTable \in [Procs -> Seq(Entries)]
    /\ NotFound \notin Values

VARIABLES nameList,     \* obj->nameList of each processor
          freeEntries,  \* number of entries on obj->freeList
          opc, oname    \* owners: next step of NameServer_add, and for what name

table == <<nameList, freeEntries, opc, oname>>

TableTypeOK ==
    /\ nameList \in [Procs -> Seq(Entries)]
    /\ freeEntries \in [Procs -> 0 .. numDynamic]
    /\ opc \in [Owners -> {"idle", "get", "put"}] /\ oname \in [Owners -> Names]

AnyName == CHOOSE n \in Names : TRUE

TableInit ==
    /\ nameList = StaticTable /\ freeEntries = [p \in Procs |-> numDynamic]
    /\ opc = [o \in Owners |-> "idle"] /\ oname = [o \in Owners |-> AnyName]

\* NameServer_findLocal: the places of the name in the list; the first one counts.
Places(p, n) == {i \in DOMAIN nameList[p] : nameList[p][i].name = n}
FirstOf(S) == CHOOSE i \in S : \A j \in S : i <= j

\* NameServer_getLocal
GetLocal(p, n) == IF Places(p, n) = {} THEN NotFound
                  ELSE nameList[p][FirstOf(Places(p, n))].value

\* NameServer_add looks for the name under the gate, and leaves the gate; a name found
\* is E_entryExists and changes nothing.
AddCheck(o, n) ==
    /\ opc[o] = "idle"
    /\ checkExisting => Places(home[o], n) = {}
    /\ opc' = [opc EXCEPT ![o] = "get"] /\ oname' = [oname EXCEPT ![o] = n]
    /\ UNCHANGED <<nameList, freeEntries>>

\* List_get(freeList), or E_maxReached.
AddGet(o) ==
    /\ opc[o] = "get"
    /\ \/ /\ freeEntries[home[o]] > 0
          /\ freeEntries' = [freeEntries EXCEPT ![home[o]] = @ - 1]
          /\ opc' = [opc EXCEPT ![o] = "put"] /\ UNCHANGED oname
       \/ /\ freeEntries[home[o]] = 0
          /\ opc' = [opc EXCEPT ![o] = "idle"] /\ oname' = [oname EXCEPT ![o] = AnyName]
          /\ UNCHANGED freeEntries
    /\ UNCHANGED nameList

\* The entry is filled in and List_put on the nameList.
AddPut(o) ==
    /\ opc[o] = "put"
    /\ \E v \in Versions :
          nameList' = [nameList EXCEPT ![home[o]] =
                          Append(@, [name |-> oname[o], value |-> <<oname[o], v>>])]
    /\ opc' = [opc EXCEPT ![o] = "idle"] /\ oname' = [oname EXCEPT ![o] = AnyName]
    /\ UNCHANGED freeEntries

DropAt(s, i) == SubSeq(s, 1, i - 1) \o SubSeq(s, i + 1, Len(s))

\* NameServer_remove: the static entries at the head of the list are skipped.
Remove(o, n) ==
    LET p == home[o]
        S == {i \in Places(p, n) : i > Len(StaticTable[p])}
    IN  /\ opc[o] = "idle" /\ S # {}
        /\ nameList' = [nameList EXCEPT ![p] = DropAt(@, FirstOf(S))]
        /\ freeEntries' = [freeEntries EXCEPT ![p] = @ + 1]
        /\ UNCHANGED <<opc, oname>>

OwnerStep(o) == \/ \E n \in Names : AddCheck(o, n) \/ Remove(o, n)
                \/ AddGet(o) \/ AddPut(o)
=============================================================================
