----------------------------- MODULE NameTables -----------------------------
(***************************************************************************)
(* The names that the frame log shows (CASExampleHelper.cpp): short tables    *)
(* indexed by the number on the wire, and two long ones, sorted by id, that   *)
(* LookUpIdName searches by halves, one half per step here.  A name is its    *)
(* place in its table.                                                     *)
(***************************************************************************)
EXTENDS Naturals, Sequences

CONSTANTS
  IdTables,  \* the tables that are searched, as their ids in order
  Wanted     \* the ids that are looked up

\* "Sorted ascending by id" (CASExampleHelper.cpp:594).
Ascending(table) == \A i, j \in 1 .. Len(table) : i < j => table[i] < table[j]

ASSUME IdTablesAssumption == \A table \in IdTables : table \in Seq(Nat) /\ Ascending(table)
ASSUME WantedAssumption == Wanted \subseteq Nat

----------------------------------------------------------------------------
(* The tables of this repository. *)

Ids(first, last) == [i \in 1 .. last - first + 1 |-> first + i - 1]

OBJECT_TYPE_NAMES == Ids(0, 64)

PROPERTY_NAMES ==
  Ids(0, 17) \o Ids(19, 54) \o Ids(56, 94) \o Ids(96, 100) \o Ids(102, 128) \o Ids(130, 137)
    \o Ids(139, 193) \o Ids(195, 197) \o Ids(202, 215) \o Ids(218, 222) \o Ids(226, 235)
    \o Ids(244, 283) \o Ids(285, 292) \o Ids(294, 298) \o Ids(300, 311) \o Ids(317, 323)
    \o Ids(326, 336) \o Ids(338, 465) \o Ids(467, 511) \o Ids(4194304, 4194349)

\* The numbers that have a name.
ConfirmedServiceName == 0 .. 31
UnconfirmedServiceName == 0 .. 11
RejectReasonName == 0 .. 9
AbortReasonName == 0 .. 11
NetworkMessageName == 0 .. 7 \cup {18, 19}
ObjectTypeName == {OBJECT_TYPE_NAMES[i] : i \in DOMAIN OBJECT_TYPE_NAMES}
PropertyName == {PROPERTY_NAMES[i] : i \in DOMAIN PROPERTY_NAMES}

----------------------------------------------------------------------------
(* LookUpIdName, counting from 0 as the code does. *)

VARIABLES
  table, id,  \* the arguments
  lo, hi,
  answer      \* the places it returned: none for NULL, one else
lookUpVars == <<table, id, lo, hi, answer>>

LookUpInit ==
  /\ table \in IdTables
  /\ id \in Wanted
  /\ lo = 0
  /\ hi = Len(table)
  /\ answer = {}

mid == lo + (hi - lo) \div 2

\* The id in the middle has been compared already.
UpperHalfEnds_TooLow == IF mid = 0 THEN 0 ELSE mid - 1

UpperHalfEnds == mid

LookUpStep ==
  /\ lo < hi
  /\ answer = {}
  /\ \/ /\ table[mid + 1] = id
        /\ answer' = {mid}
        /\ UNCHANGED <<lo, hi>>
     \/ /\ table[mid + 1] < id
        /\ lo' = mid + 1
        /\ UNCHANGED <<hi, answer>>
     \/ /\ table[mid + 1] > id
        /\ hi' = UpperHalfEnds
        /\ UNCHANGED <<lo, answer>>
  /\ UNCHANGED <<table, id>>

LookUpNext == LookUpStep

LookUpSpec == LookUpInit /\ [][LookUpNext]_lookUpVars

----------------------------------------------------------------------------

Places == 0 .. Len(table) - 1

\* What returns is the place of the id, and what returns NULL did not overlook it:
\* the search never leaves the half that the id is in, nor the table
\* (CASExampleHelper.cpp:1195-1209).
NothingIsOverlooked ==
  /\ lo <= hi /\ hi <= Len(table)
  /\ \A place \in answer : place \in Places /\ table[place + 1] = id
  /\ answer = {} => \A place \in Places : table[place + 1] = id => lo <= place /\ place < hi
=============================================================================
