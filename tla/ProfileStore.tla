---------------------------- MODULE ProfileStore ----------------------------
(***************************************************************************)
(* The profiles of a PGStore: their rows, whose names a unique index keeps *)
(* apart, and the Profile values that goroutines read from them, share and *)
(* rename.  Runs of cmd/tokengen find or create the profile "default" with *)
(* two statements, against each other and against the application.         *)
(*                                                                         *)
(* A statement can fail, and it can commit with its answer lost, which the *)
(* caller takes for a failure.                                             *)
(***************************************************************************)
EXTENDS Integers, FiniteSets

CONSTANTS
    Ids,         \* profile ids (gen_random_uuid)
    Names,       \* profile names
    Default,     \* "default"
    Values,      \* Profile values of the application
    Callers,     \* its goroutines
    Runs,        \* tokengen processes
    Env,         \* the faults an instance includes
    MaxChanges,  \* bound on the application's NewProfile, Rename and Delete
    None

Profile == [id : Ids, name : Names]

Call ==
    [op : {"rename"}, v : Values, to : Names, old : Names, step : {"lock", "update"}]
      \cup [op : {"new"}, to : Names]

ASSUME ConstantsAssumption ==
    /\ Default \in Names
    /\ None \notin Ids \cup Names \cup Callers \cup Profile \cup Call
    /\ Env \subseteq {"store", "lost"}
    /\ MaxChanges \in Nat
    /\ Cardinality(Ids) > MaxChanges  \* an id is always left

VARIABLES
    name,     \* name[i]: profile_name of row i, or None where there is no row
    had,      \* history: had[i]: the names that row i has had
    value,    \* value[v]: the ID and ProfileName of a Profile, or None
    mutex,    \* mutex[v]: the caller that holds the Profile's mutex
    call,     \* call[p]: the Rename or NewProfile that p is making, or None
    run,      \* run[t]: where tokengen is
    result,   \* result[t]: the profile tokengen goes on with
    changes   \* how many NewProfile, Rename and Delete the application began

vars == <<name, had, value, mutex, call, run, result, changes>>

Init ==
    /\ name = [i \in Ids |-> None]
    /\ had = [i \in Ids |-> {}]
    /\ value = [v \in Values |-> None]
    /\ mutex = [v \in Values |-> None]
    /\ call = [p \in Callers |-> None]
    /\ run = [t \in Runs |-> "find"]
    /\ result = [t \in Runs |-> None]
    /\ changes = 0

-----------------------------------------------------------------------------
(* The table.                                                              *)

Rows == {i \in Ids : name[i] # None}

Named(n) == {i \in Rows : name[i] = n}

(* gen_random_uuid: an id never used, and all such ids are alike. *)
FreshIds == {i \in Ids : had[i] = {} /\ i = (CHOOSE j \in Ids : had[j] = {})}

(* profiles_profile_name_idx *)
MayTake(i, n) == Named(n) \subseteq {i}

SetName(i, n) ==
    /\ name' = [name EXCEPT ![i] = n]
    /\ had' = [had EXCEPT ![i] = @ \cup {n}]

StatementFails == "store" \in Env

AnswerIsLost == "lost" \in Env

Begin(p, c) ==
    /\ call[p] = None
    /\ changes < MaxChanges
    /\ changes' = changes + 1
    /\ call' = [call EXCEPT ![p] = c]

Return(p) == call' = [call EXCEPT ![p] = None]

-----------------------------------------------------------------------------
(* NewProfile, and the reads: FindProfile, GetProfile and AllProfiles      *)
(* return Profile values of rows.                                          *)

BeginNewProfile(p, n) ==
    /\ Begin(p, [op |-> "new", to |-> n])
    /\ UNCHANGED <<name, had, value, mutex, run, result>>

(* With its answer lost, or dropped by the caller, the row has no Profile. *)
NewProfile(p) ==
    /\ call[p] # None /\ call[p].op = "new"
    /\ Return(p)
    /\ LET n == call[p].to
       IN \/ \E i \in FreshIds :
               /\ MayTake(i, n)
               /\ SetName(i, n)
               /\ \/ \E v \in Values :
                       value[v] = None /\ value' = [value EXCEPT ![v] = [id |-> i, name |-> n]]
                  \/ UNCHANGED value
          \/ /\ Named(n) # {} \/ StatementFails
             /\ UNCHANGED <<name, had, value>>
    /\ UNCHANGED <<mutex, run, result, changes>>

ReadProfile(v, i) ==
    /\ value[v] = None
    /\ i \in Rows
    /\ value' = [value EXCEPT ![v] = [id |-> i, name |-> name[i]]]
    /\ UNCHANGED <<name, had, mutex, call, run, result, changes>>

(* PGStore.DeleteProfile and Profile.Delete. *)
DeleteProfile(i) ==
    /\ i \in Rows
    /\ changes < MaxChanges
    /\ changes' = changes + 1
    /\ name' = [name EXCEPT ![i] = None]
    /\ UNCHANGED <<had, value, mutex, call, run, result>>

-----------------------------------------------------------------------------
(* Profile.Rename.                                                         *)

BeginRename(p, v, n) ==
    /\ value[v] # None
    /\ Begin(p, [op |-> "rename", v |-> v, to |-> n, old |-> value[v].name,
                 step |-> "lock"])
    /\ UNCHANGED <<name, had, value, mutex, run, result>>

Renaming(p, step) ==
    call[p] # None /\ call[p].op = "rename" /\ call[p].step = step

Updating(v, to, old) ==
    [op |-> "rename", v |-> v, to |-> to, old |-> old, step |-> "update"]

RenameUnguarded(p) ==
    /\ Renaming(p, "lock")
    /\ LET v == call[p].v
       IN /\ mutex' = [mutex EXCEPT ![v] = p]
          /\ value' = [value EXCEPT ![v].name = call[p].to]
          /\ call' = [call EXCEPT ![p] = Updating(v, call[p].to, value[v].name)]
    /\ UNCHANGED <<name, had, run, result, changes>>

(* The new name is in the Profile, where GetName reads it without the      *)
(* mutex, before the statement is run.                                     *)
RenameLocks(p) ==
    /\ Renaming(p, "lock")
    /\ LET v == call[p].v
       IN /\ mutex[v] = None
          /\ mutex' = [mutex EXCEPT ![v] = p]
          /\ value' = [value EXCEPT ![v].name = call[p].to]
          /\ call' = [call EXCEPT ![p] = Updating(v, call[p].to, value[v].name)]
    /\ UNCHANGED <<name, had, run, result, changes>>

(* The update of a row that is gone changes nothing, and is no error. *)
RenameCommits(p) ==
    /\ Renaming(p, "update")
    /\ LET v == call[p].v  i == value[v].id  n == call[p].to
       IN /\ i \in Rows => MayTake(i, n)
          /\ IF i \in Rows THEN SetName(i, n) ELSE UNCHANGED <<name, had>>
          /\ \/ UNCHANGED value
             \/ AnswerIsLost /\ value' = [value EXCEPT ![v].name = call[p].old]
          /\ mutex' = [mutex EXCEPT ![v] = None]
    /\ Return(p)
    /\ UNCHANGED <<run, result, changes>>

RenameForgets(p) ==
    /\ Renaming(p, "update")
    /\ \/ StatementFails
       \/ ~MayTake(value[call[p].v].id, call[p].to)
    /\ mutex' = [mutex EXCEPT ![call[p].v] = None]
    /\ Return(p)
    /\ UNCHANGED <<name, had, value, run, result, changes>>

RenameFails(p) ==
    /\ Renaming(p, "update")
    /\ LET v == call[p].v
       IN /\ \/ StatementFails
             \/ value[v].id \in Rows /\ ~MayTake(value[v].id, call[p].to)
          /\ value' = [value EXCEPT ![v].name = call[p].old]
          /\ mutex' = [mutex EXCEPT ![v] = None]
    /\ Return(p)
    /\ UNCHANGED <<name, had, run, result, changes>>

-----------------------------------------------------------------------------
(* cmd/tokengen.                                                           *)

Goto(t, step) == run' = [run EXCEPT ![t] = step]

(* The profile is there: on with CleanPKCE and TokenSource. *)
FindsDefault(t) ==
    /\ run[t] = "find"
    /\ \E i \in Named(Default) : result' = [result EXCEPT ![t] = i]
    /\ Goto(t, "done")
    /\ UNCHANGED <<name, had, value, mutex, call, changes>>

GivesUp(t) ==
    /\ run[t] = "find"
    /\ Named(Default) = {} \/ StatementFails
    /\ Goto(t, "fatal")
    /\ UNCHANGED <<name, had, value, mutex, call, result, changes>>

(* Whatever the error of FindProfile, NewProfile is next. *)
MissesDefault(t) ==
    /\ run[t] = "find"
    /\ Named(Default) = {} \/ StatementFails
    /\ Goto(t, "create")
    /\ UNCHANGED <<name, had, value, mutex, call, result, changes>>

CreatesAnother(t) ==
    /\ run[t] = "create"
    /\ \E i \in FreshIds :
         /\ SetName(i, Default)
         /\ result' = [result EXCEPT ![t] = i]
    /\ Goto(t, "done")
    /\ UNCHANGED <<value, mutex, call, changes>>

CreatesDefault(t) ==
    /\ run[t] = "create"
    /\ \E i \in FreshIds :
         /\ MayTake(i, Default)
         /\ SetName(i, Default)
         /\ result' = [result EXCEPT ![t] = i]
    /\ Goto(t, "done")
    /\ UNCHANGED <<value, mutex, call, changes>>

(* log.Fatalln: somebody else has created it, or the statement fails, or   *)
(* it commits unheard.                                                     *)
Dies(t) ==
    /\ run[t] = "create"
    /\ \/ /\ Named(Default) # {} \/ StatementFails
          /\ UNCHANGED <<name, had>>
       \/ /\ AnswerIsLost
          /\ \E i \in FreshIds : MayTake(i, Default) /\ SetName(i, Default)
    /\ Goto(t, "fatal")
    /\ UNCHANGED <<value, mutex, call, result, changes>>

(* The user starts it again. *)
Restarts(t) ==
    /\ run[t] = "fatal"
    /\ Goto(t, "find")
    /\ UNCHANGED <<name, had, value, mutex, call, result, changes>>

-----------------------------------------------------------------------------

Tokengen(t) ==
    FindsDefault(t) \/ MissesDefault(t) \/ CreatesDefault(t) \/ Dies(t) \/ Restarts(t)

Next ==
    \/ \E p \in Callers :
         \/ \E n \in Names : BeginNewProfile(p, n)
         \/ \E v \in Values, n \in Names : BeginRename(p, v, n)
         \/ NewProfile(p)
         \/ RenameLocks(p) \/ RenameCommits(p) \/ RenameFails(p)
    \/ \E v \in Values, i \in Ids : ReadProfile(v, i)
    \/ \E i \in Ids : DeleteProfile(i)
    \/ \E t \in Runs : Tokengen(t)

Spec == Init /\ [][Next]_vars

(* A run that died is started again, and a statement that is run again and *)
(* again does not fail for ever.                                           *)
FairSpec ==
    /\ Spec
    /\ \A t \in Runs :
         WF_vars(Tokengen(t)) /\ SF_vars(FindsDefault(t)) /\ SF_vars(CreatesDefault(t))

-----------------------------------------------------------------------------
(* Properties.                                                             *)

(* The variables hold values of their types, the names of the rows differ, *)
(* and a Rename that has the mutex is the only one on its Profile.         *)
TypeOK ==
    /\ name \in [Ids -> Names \cup {None}]
    /\ had \in [Ids -> SUBSET Names]
    /\ value \in [Values -> Profile \cup {None}]
    /\ mutex \in [Values -> Callers \cup {None}]
    /\ call \in [Callers -> Call \cup {None}]
    /\ run \in [Runs -> {"find", "create", "fatal", "done"}]
    /\ result \in [Runs -> Ids \cup {None}]
    /\ changes \in 0..MaxChanges
    /\ \A n \in Names : Cardinality(Named(n)) <= 1
    /\ \A p \in Callers : Renaming(p, "update") => mutex[call[p].v] = p

(* When no Rename holds it, a Profile has a name that its row has, or once *)
(* had: no failed Rename, and no two at the same time, leave one there     *)
(* that was never its own.                                                 *)
SettledNames ==
    \A v \in Values :
        /\ value[v] # None
        /\ mutex[v] = None
        /\ value[v].id \in Rows
        => value[v].name \in had[value[v].id]

(* However its runs race, die, are not heard and are started again,        *)
(* tokengen adds one row at most for itself and one for each change of the *)
(* application, which may have freed the name: as long as there is none,   *)
(* all runs go on with one profile.                                        *)
NoStrays == Cardinality({i \in Ids : had[i] # {}}) <= 1 + changes

(* tokengen, started again whenever it dies, gets its profile in the end:  *)
(* a run that lost the race, or whose profile was created unheard, finds   *)
(* it the next time.                                                       *)
RunsSettle == \A t \in Runs : <>(run[t] = "done")
=============================================================================
