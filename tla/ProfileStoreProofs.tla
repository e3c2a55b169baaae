------------------------- MODULE ProfileStoreProofs -------------------------
(***************************************************************************)
(* Names in ProfileStore: the rows' differ, and a Profile that no Rename   *)
(* holds has one that its row has or had.  And the rows: there are no more *)
(* than tokengen and the changes of the application account for.           *)
(***************************************************************************)
EXTENDS ProfileStore, FiniteSetTheorems, TLAPS

Types ==
    /\ name \in [Ids -> Names \cup {None}]
    /\ had \in [Ids -> SUBSET Names]
    /\ value \in [Values -> Profile \cup {None}]
    /\ mutex \in [Values -> Callers \cup {None}]
    /\ call \in [Callers -> Call \cup {None}]
    /\ run \in [Runs -> {"find", "create", "fatal", "done"}]
    /\ result \in [Runs -> Ids \cup {None}]
    /\ changes \in 0..MaxChanges

NamesDiffer == \A i, j \in Ids : name[i] # None /\ name[i] = name[j] => i = j

RowsHaveTheirNames == \A i \in Ids : name[i] # None => name[i] \in had[i]

(* A Profile comes from a row; free, it has a name the row has had.        *)
FreeValues ==
    \A v \in Values : value[v] # None =>
        /\ had[value[v].id] # {}
        /\ mutex[v] = None /\ name[value[v].id] # None
             => value[v].name \in had[value[v].id]

(* A Rename past its Lock has the mutex, its name in the Profile, and one  *)
(* that the row has had to restore.                                        *)
Renamers ==
    \A p \in Callers :
        /\ call[p] # None /\ call[p].op = "rename" => value[call[p].v] # None
        /\ Renaming(p, "update") =>
             /\ mutex[call[p].v] = p
             /\ value[call[p].v].name = call[p].to
             /\ name[value[call[p].v].id] # None
                  => call[p].old \in had[value[call[p].v].id]

NamesInv == Types /\ NamesDiffer /\ RowsHaveTheirNames /\ FreeValues /\ Renamers

LEMMA NamesInit == Init => NamesInv
BY ConstantsAssumption DEF Init, NamesInv, Types, NamesDiffer, RowsHaveTheirNames, FreeValues, Renamers, Renaming, Profile, Call

USE DEF NamesInv, Types, NamesDiffer, RowsHaveTheirNames, FreeValues, Renamers

(* A row keeps, gets or loses its name; the names it had stay. *)
LEMMA SetNameKeeps ==
    ASSUME NamesInv, NEW i \in Ids, NEW n \in Names, MayTake(i, n), SetName(i, n)
    PROVE  /\ name' \in [Ids -> Names \cup {None}]
           /\ had' \in [Ids -> SUBSET Names]
           /\ NamesDiffer'
           /\ RowsHaveTheirNames'
           /\ had[i] \subseteq had'[i] /\ n \in had'[i]
           /\ name'[i] = n
           /\ \A j \in Ids \ {i} : name'[j] = name[j] /\ had'[j] = had[j]
BY ConstantsAssumption DEF MayTake, SetName, Named, Rows

RenameCall ==
    [op : {"rename"}, v : Values, to : Names, old : Names, step : {"lock", "update"}]

LEMMA RenameFields ==
    ASSUME NamesInv, NEW p \in Callers, call[p] # None, call[p].op = "rename"
    PROVE  call[p] \in RenameCall /\ value[call[p].v] \in Profile
<1>1. call[p] \in RenameCall
    BY DEF Call, RenameCall
<1>2. call[p].v \in Values
    BY <1>1 DEF RenameCall
<1> QED BY <1>1, <1>2

(* Rename returns, with its name or the old one in the Profile. *)
LEMMA RenameEnds ==
    ASSUME NamesInv, NEW p \in Callers, Renaming(p, "update"),
           name' \in [Ids -> Names \cup {None}], had' \in [Ids -> SUBSET Names],
           NamesDiffer', RowsHaveTheirNames',
           \A j \in Ids : had[j] \subseteq had'[j] /\ (name'[j] = None <=> name[j] = None),
           \/ /\ value' = value
              /\ name[value[call[p].v].id] # None => call[p].to \in had'[value[call[p].v].id]
           \/ value' = [value EXCEPT ![call[p].v].name = call[p].old],
           mutex' = [mutex EXCEPT ![call[p].v] = None],
           call' = [call EXCEPT ![p] = None],
           UNCHANGED <<run, result, changes>>
    PROVE  NamesInv'
<1> USE ConstantsAssumption
<1> DEFINE v == call[p].v  i == value[call[p].v].id
<1>1. /\ call[p] \in RenameCall /\ v \in Values /\ call[p].old \in Names
      /\ value[v] \in Profile /\ value[v] # None /\ i \in Ids
      /\ mutex[v] = p /\ value[v].name = call[p].to
      /\ name[i] # None => call[p].old \in had[i]
    BY RenameFields DEF Renaming, RenameCall, Profile
<1>2. /\ value'[v] \in Profile /\ value'[v] # None
      /\ value'[v].id = i
      /\ name[i] # None => value'[v].name \in had'[i]
      /\ value' \in [Values -> Profile \cup {None}]
      /\ \A w \in Values \ {v} : value'[w] = value[w]
  <2>1. CASE value' = value /\ (name[i] # None => call[p].to \in had'[i])
    BY <1>1, <2>1
  <2>2. CASE value' = [value EXCEPT ![v].name = call[p].old]
    <3>1. /\ value'[v] = [value[v] EXCEPT !.name = call[p].old]
          /\ \A w \in Values \ {v} : value'[w] = value[w]
          /\ value' \in [Values -> Profile \cup {None}]
      BY <1>1, <2>2 DEF Profile
    <3>2. value'[v] \in Profile /\ value'[v].id = i /\ value'[v].name = call[p].old
          /\ value'[v] # None
      BY <1>1, <3>1 DEF Profile
    <3>3. name[i] # None => value'[v].name \in had'[i]
      BY <1>1, <3>2
    <3> QED BY ONLY <3>1, <3>2, <3>3
  <2> QED BY <2>1, <2>2
<1>3. /\ mutex' \in [Values -> Callers \cup {None}]
      /\ \A w \in Values \ {v} : mutex'[w] = mutex[w]
      /\ call' \in [Callers -> Call \cup {None}]
      /\ call'[p] = None
      /\ \A q \in Callers \ {p} : call'[q] = call[q]
    BY <1>1
<1>4. FreeValues'
  <2> SUFFICES ASSUME NEW w \in Values, value'[w] # None
               PROVE  /\ had'[value'[w].id] # {}
                      /\ mutex'[w] = None /\ name'[value'[w].id] # None
                           => value'[w].name \in had'[value'[w].id]
    OBVIOUS
  <2>1. CASE w = v
    <3>1. /\ value'[w].id = i /\ had[i] # {} /\ had[i] \subseteq had'[i]
          /\ name'[i] # None => name[i] # None
      BY <2>1, <1>1, <1>2
    <3>2. value'[w].id = i /\ (name[i] # None => value'[w].name \in had'[i])
      BY <2>1, <1>2
    <3> QED BY ONLY <3>1, <3>2
  <2>2. CASE w # v
    <3>1. value[w] \in Profile /\ value[w].id \in Ids
      BY <2>2, <1>2 DEF Profile
    <3>2. value'[w] = value[w] /\ mutex'[w] = mutex[w]
      BY <2>2, <1>2, <1>3
    <3>3. /\ had[value[w].id] \subseteq had'[value[w].id]
          /\ name'[value[w].id] = None <=> name[value[w].id] = None
      BY <3>1
    <3> QED BY <3>1, <3>2, <3>3
  <2> QED BY <2>1, <2>2
<1>5. Renamers'
  <2> SUFFICES ASSUME NEW q \in Callers, call'[q] # None, call'[q].op = "rename"
               PROVE  /\ value'[call'[q].v] # None
                      /\ call'[q].step = "update" =>
                           /\ mutex'[call'[q].v] = q
                           /\ value'[call'[q].v].name = call'[q].to
                           /\ name'[value'[call'[q].v].id] # None
                                => call'[q].old \in had'[value'[call'[q].v].id]
    BY DEF Renaming
  <2>1. q # p /\ call'[q] = call[q]
    BY <1>3
  <2>2. call[q] \in RenameCall /\ value[call[q].v] \in Profile /\ call[q].v \in Values
        /\ value[call[q].v].id \in Ids
    BY <2>1, RenameFields DEF RenameCall, Profile
  <2>3. value'[call[q].v] # None
    BY <2>1, <2>2, <1>2
  <2>4. CASE call[q].step = "update"
    <3>1. /\ mutex[call[q].v] = q /\ value[call[q].v].name = call[q].to
          /\ name[value[call[q].v].id] # None => call[q].old \in had[value[call[q].v].id]
      BY <2>1, <2>4 DEF Renaming
    <3>2. call[q].v # v
      BY <3>1, <2>1, <1>1
    <3>3. mutex'[call[q].v] = mutex[call[q].v] /\ value'[call[q].v] = value[call[q].v]
      BY ONLY <2>2, <3>2, <1>2, <1>3
    <3>4. /\ had[value[call[q].v].id] \subseteq had'[value[call[q].v].id]
          /\ name'[value[call[q].v].id] = None <=> name[value[call[q].v].id] = None
      BY <2>2
    <3> QED BY ONLY <2>1, <2>3, <3>1, <3>3, <3>4
  <2> QED BY <2>1, <2>3, <2>4
<1> QED BY <1>2, <1>3, <1>4, <1>5

LEMMA NamesNext == NamesInv /\ [Next]_vars => NamesInv'
<1> SUFFICES ASSUME NamesInv, [Next]_vars PROVE NamesInv'
    OBVIOUS
<1> USE ConstantsAssumption
<1>1. ASSUME NEW p \in Callers, NEW n \in Names, BeginNewProfile(p, n) PROVE NamesInv'
    BY <1>1 DEF BeginNewProfile, Begin, Renaming, Call
<1>2. ASSUME NEW p \in Callers, NEW v \in Values, NEW n \in Names, BeginRename(p, v, n)
      PROVE NamesInv'
    BY <1>2 DEF BeginRename, Begin, Renaming, Call, Profile
<1>3. ASSUME NEW p \in Callers, NewProfile(p) PROVE NamesInv'
  <2>1. /\ call' = [call EXCEPT ![p] = None]
        /\ UNCHANGED <<mutex, run, result, changes>>
        /\ Call = RenameCall \cup [op : {"new"}, to : Names]
    BY <1>3 DEF NewProfile, Return, Call, RenameCall
  <2>2. call[p].to \in Names
    BY <1>3 DEF NewProfile, Call
  <2>3. CASE UNCHANGED <<name, had, value>>
    BY <2>1, <2>3 DEF Renaming
  <2>4. CASE \E i \in FreshIds :
                /\ MayTake(i, call[p].to) /\ SetName(i, call[p].to)
                /\ \/ \E v \in Values :
                        value[v] = None
                          /\ value' = [value EXCEPT ![v] = [id |-> i, name |-> call[p].to]]
                   \/ UNCHANGED value
    <3>1. PICK i \in FreshIds :
                /\ MayTake(i, call[p].to) /\ SetName(i, call[p].to)
                /\ \/ \E v \in Values :
                        value[v] = None
                          /\ value' = [value EXCEPT ![v] = [id |-> i, name |-> call[p].to]]
                   \/ UNCHANGED value
      BY <2>4
    <3>2. i \in Ids /\ had[i] = {}
      BY DEF FreshIds
    <3>3. /\ name' \in [Ids -> Names \cup {None}]
          /\ had' \in [Ids -> SUBSET Names]
          /\ NamesDiffer' /\ RowsHaveTheirNames'
          /\ call[p].to \in had'[i]
          /\ \A j \in Ids \ {i} : name'[j] = name[j] /\ had'[j] = had[j]
      BY <3>1, <3>2, <2>2, SetNameKeeps
    <3>4. CASE UNCHANGED value
      <4>1. \A w \in Values : value[w] # None =>
                value[w].id \in Ids \ {i} /\ had'[value[w].id] = had[value[w].id]
                  /\ name'[value[w].id] = name[value[w].id]
        BY <3>2, <3>3 DEF Profile
      <4>2. FreeValues'
        BY <4>1, <3>4, <2>1
      <4>3. Renamers'
        <5> SUFFICES ASSUME NEW q \in Callers, call'[q] # None, call'[q].op = "rename"
                     PROVE  /\ value[call[q].v] # None
                            /\ call[q].step = "update" =>
                                 /\ mutex[call[q].v] = q
                                 /\ value[call[q].v].name = call[q].to
                                 /\ name'[value[call[q].v].id] # None
                                      => call[q].old \in had'[value[call[q].v].id]
          BY <3>4, <2>1 DEF Renaming
        <5>1. call[q] \in RenameCall /\ call[q] # None /\ call[q].op = "rename"
          BY <2>1, RenameFields
        <5>2. call[q].v \in Values /\ value[call[q].v] # None
          BY <5>1 DEF RenameCall
        <5> QED BY <5>1, <5>2, <4>1 DEF Renaming
      <4>4. Types'
        BY <3>3, <3>4, <2>1
      <4> QED BY <3>3, <4>2, <4>3, <4>4
    <3>5. ASSUME NEW v \in Values, value[v] = None,
                 value' = [value EXCEPT ![v] = [id |-> i, name |-> call[p].to]]
          PROVE  NamesInv'
      <4>1. /\ value' \in [Values -> Profile \cup {None}]
            /\ value'[v].id = i /\ value'[v].name = call[p].to
            /\ \A w \in Values \ {v} : value'[w] = value[w]
        BY <3>2, <3>5, <2>2 DEF Profile
      <4>2. \A w \in Values : value[w] # None =>
              /\ w # v
              /\ had'[value[w].id] = had[value[w].id]
              /\ name'[value[w].id] = name[value[w].id]
        <5>1. \A w \in Values : value[w] # None => value[w].id \in Ids /\ value[w].id # i
          BY <3>2 DEF Profile
        <5> QED BY <3>3, <3>5, <5>1
      <4>3. FreeValues'
        <5> SUFFICES ASSUME NEW w \in Values, value'[w] # None
                     PROVE  /\ had'[value'[w].id] # {}
                            /\ mutex[w] = None /\ name'[value'[w].id] # None
                                 => value'[w].name \in had'[value'[w].id]
          BY <2>1
        <5>1. CASE w = v
          BY <5>1, <3>3, <4>1
        <5>2. CASE w # v
          <6>1. value'[w] = value[w] /\ value[w] # None
            BY <5>2, <4>1
          <6>2. /\ had'[value[w].id] = had[value[w].id]
                /\ name'[value[w].id] = name[value[w].id]
            BY <6>1, <4>2
          <6>3. /\ had[value[w].id] # {}
                /\ mutex[w] = None /\ name[value[w].id] # None
                     => value[w].name \in had[value[w].id]
            BY <6>1
          <6> QED BY ONLY <6>1, <6>2, <6>3
        <5> QED BY <5>1, <5>2
      <4>4. Renamers'
        <5> SUFFICES ASSUME NEW q \in Callers, call'[q] # None, call'[q].op = "rename"
                     PROVE  /\ value'[call[q].v] # None
                            /\ call[q].step = "update" =>
                                 /\ mutex[call[q].v] = q
                                 /\ value'[call[q].v].name = call[q].to
                                 /\ name'[value'[call[q].v].id] # None
                                      => call[q].old \in had'[value'[call[q].v].id]
          BY <2>1 DEF Renaming
        <5>1. call[q] \in RenameCall /\ call[q] # None /\ call[q].op = "rename"
          BY <2>1, RenameFields
        <5>2. call[q].v \in Values /\ value[call[q].v] # None
          BY <5>1 DEF RenameCall
        <5>3. value'[call[q].v] = value[call[q].v]
          BY <5>2, <4>1, <4>2
        <5> QED BY <5>1, <5>2, <5>3, <4>2 DEF Renaming
      <4>5. Types'
        BY <3>3, <4>1, <2>1
      <4> QED BY <3>3, <4>3, <4>4, <4>5
    <3> QED BY <3>1, <3>4, <3>5
  <2> QED BY <1>3, <2>3, <2>4 DEF NewProfile
<1>4. ASSUME NEW v \in Values, NEW i \in Ids, ReadProfile(v, i) PROVE NamesInv'
    BY <1>4 DEF ReadProfile, Rows, Renaming, Profile, Call
<1>5. ASSUME NEW i \in Ids, DeleteProfile(i) PROVE NamesInv'
    BY <1>5 DEF DeleteProfile, Rows, Renaming, Profile, Call
<1>6. ASSUME NEW p \in Callers, RenameLocks(p) PROVE NamesInv'
  <2> DEFINE v == call[p].v
  <2>1. /\ call[p] \in RenameCall /\ v \in Values /\ call[p].to \in Names
        /\ value[v] \in Profile /\ value[v] # None /\ mutex[v] = None
        /\ call[p].op = "rename"
        /\ mutex' = [mutex EXCEPT ![v] = p]
        /\ value' = [value EXCEPT ![v].name = call[p].to]
        /\ call' = [call EXCEPT ![p] = Updating(v, call[p].to, value[v].name)]
        /\ UNCHANGED <<name, had, run, result, changes>>
    BY <1>6, RenameFields DEF RenameLocks, Renaming, RenameCall
  <2>2. /\ value'[v] \in Profile
        /\ value'[v] # None
        /\ value'[v].id = value[v].id
        /\ value'[v].name = call[p].to
        /\ \A w \in Values \ {v} : value'[w] = value[w]
    BY <2>1 DEF Profile
  <2>3. /\ call'[p] \in RenameCall /\ call'[p].v = v
        /\ call'[p].old = value[v].name /\ call'[p].to = call[p].to
        /\ \A q \in Callers \ {p} : call'[q] = call[q]
    BY <2>1 DEF Profile, RenameCall, Updating
  <2>4. Types'
    BY <2>1, <2>2, <2>3 DEF RenameCall, Call
  <2>5. NamesDiffer' /\ RowsHaveTheirNames'
    BY <2>1
  <2>6. FreeValues'
    <3> SUFFICES ASSUME NEW w \in Values, value'[w] # None
                 PROVE  /\ had[value'[w].id] # {}
                        /\ mutex'[w] = None /\ name[value'[w].id] # None
                             => value'[w].name \in had[value'[w].id]
      BY <2>1
    <3>1. CASE w = v
      <4>1. mutex'[v] = p /\ p # None
        BY <2>1
      <4>2. had[value[v].id] # {}
        BY <2>1
      <4> QED BY <3>1, <4>1, <4>2, <2>2
    <3>2. CASE w # v
      BY <3>2, <2>1, <2>2
    <3> QED BY <3>1, <3>2
  <2>7. Renamers'
    <3> SUFFICES ASSUME NEW q \in Callers
                 PROVE  /\ call'[q] # None /\ call'[q].op = "rename" => value'[call'[q].v] # None
                        /\ call'[q] # None /\ call'[q].op = "rename" /\ call'[q].step = "update" =>
                             /\ mutex'[call'[q].v] = q
                             /\ value'[call'[q].v].name = call'[q].to
                             /\ name[value'[call'[q].v].id] # None
                                  => call'[q].old \in had[value'[call'[q].v].id]
      BY <2>1 DEF Renaming
    <3>1. CASE q = p
      <4>1. name[value[v].id] # None => value[v].name \in had[value[v].id]
        BY <2>1
      <4>2. mutex'[v] = p
        BY <2>1
      <4> QED BY <3>1, <4>1, <4>2, <2>2, <2>3
    <3>2. CASE q # p
      <4>1. call'[q] = call[q]
        BY <3>2, <2>3
      <4>2. CASE call[q] # None /\ call[q].op = "rename"
        <5>1. call[q].v \in Values /\ value[call[q].v] # None
          BY <4>2, RenameFields DEF RenameCall
        <5>2. value'[call[q].v] # None
          BY <5>1, <2>2
        <5>3. CASE call[q].step = "update"
          <6>1. /\ mutex[call[q].v] = q /\ value[call[q].v].name = call[q].to
                /\ name[value[call[q].v].id] # None
                     => call[q].old \in had[value[call[q].v].id]
            BY <4>2, <5>3 DEF Renaming
          <6>2. call[q].v # v
            BY <6>1, <2>1
          <6>3. mutex'[call[q].v] = mutex[call[q].v] /\ value'[call[q].v] = value[call[q].v]
            BY <5>1, <6>2, <2>1, <2>2
          <6> QED BY <4>1, <5>2, <6>1, <6>3
        <5> QED BY <4>1, <5>2, <5>3
      <4> QED BY <4>1, <4>2
    <3> QED BY <3>1, <3>2
  <2> QED BY <2>4, <2>5, <2>6, <2>7
<1>7. ASSUME NEW p \in Callers, RenameCommits(p) PROVE NamesInv'
  <2> DEFINE v == call[p].v  i == value[call[p].v].id
  <2>1. /\ Renaming(p, "update")
        /\ i \in Rows => MayTake(i, call[p].to)
        /\ IF i \in Rows THEN SetName(i, call[p].to) ELSE UNCHANGED <<name, had>>
        /\ value' = value \/ value' = [value EXCEPT ![v].name = call[p].old]
        /\ mutex' = [mutex EXCEPT ![v] = None]
        /\ call' = [call EXCEPT ![p] = None]
        /\ UNCHANGED <<run, result, changes>>
    BY <1>7 DEF RenameCommits, Return
  <2>2. /\ call[p] \in RenameCall
        /\ i \in Ids /\ call[p].to \in Names
    BY <2>1, RenameFields DEF Renaming, RenameCall, Profile
  <2>3. /\ name' \in [Ids -> Names \cup {None}]
        /\ had' \in [Ids -> SUBSET Names]
        /\ NamesDiffer' /\ RowsHaveTheirNames'
        /\ \A j \in Ids : had[j] \subseteq had'[j] /\ (name'[j] = None <=> name[j] = None)
        /\ name[i] # None => call[p].to \in had'[i]
    BY <2>1, <2>2, SetNameKeeps DEF Rows
  <2> QED BY <2>1, <2>3, RenameEnds
<1>8. ASSUME NEW p \in Callers, RenameFails(p) PROVE NamesInv'
  <2>1. /\ Renaming(p, "update")
        /\ value' = [value EXCEPT ![call[p].v].name = call[p].old]
        /\ mutex' = [mutex EXCEPT ![call[p].v] = None]
        /\ call' = [call EXCEPT ![p] = None]
        /\ UNCHANGED <<name, had, run, result, changes>>
    BY <1>8 DEF RenameFails, Return
  <2>2. NamesDiffer' /\ RowsHaveTheirNames' /\ \A j \in Ids : had[j] \subseteq had'[j]
    BY <2>1
  <2> QED BY <2>1, <2>2, RenameEnds
<1>9. ASSUME NEW t \in Runs, Tokengen(t) PROVE NamesInv'
  <2>1. run' \in [Runs -> {"find", "create", "fatal", "done"}]
    BY <1>9 DEF Tokengen, FindsDefault, MissesDefault, CreatesDefault, Dies, Restarts, Goto
  <2>2. result' \in [Runs -> Ids \cup {None}]
    BY <1>9 DEF Tokengen, FindsDefault, MissesDefault, CreatesDefault, Dies, Restarts, Goto,
       FreshIds, Named, Rows
  <2>3. UNCHANGED <<value, mutex, call, changes>>
    BY <1>9 DEF Tokengen, FindsDefault, MissesDefault, CreatesDefault, Dies, Restarts
  <2>4. CASE UNCHANGED <<name, had>>
    BY <2>1, <2>2, <2>3, <2>4 DEF Renaming
  <2>5. CASE \E i \in FreshIds : MayTake(i, Default) /\ SetName(i, Default)
    <3>1. PICK i \in FreshIds : MayTake(i, Default) /\ SetName(i, Default)
      BY <2>5
    <3>2. i \in Ids /\ had[i] = {}
      BY DEF FreshIds
    <3>3. /\ name' \in [Ids -> Names \cup {None}] /\ had' \in [Ids -> SUBSET Names]
          /\ NamesDiffer' /\ RowsHaveTheirNames'
          /\ \A j \in Ids \ {i} : name'[j] = name[j] /\ had'[j] = had[j]
      BY <3>1, <3>2, SetNameKeeps
    <3>4. \A w \in Values : value[w] # None =>
            /\ had'[value[w].id] = had[value[w].id]
            /\ name'[value[w].id] = name[value[w].id]
      <4>1. \A w \in Values : value[w] # None => value[w].id \in Ids /\ value[w].id # i
        BY <3>2 DEF Profile
      <4> QED BY <3>3, <4>1
    <3>5. FreeValues'
      BY <2>3, <3>4
    <3>6. Renamers'
      <4> SUFFICES ASSUME NEW q \in Callers
                   PROVE  /\ call[q] # None /\ call[q].op = "rename" => value[call[q].v] # None
                          /\ Renaming(q, "update") =>
                               /\ mutex[call[q].v] = q
                               /\ value[call[q].v].name = call[q].to
                               /\ name'[value[call[q].v].id] # None
                                    => call[q].old \in had'[value[call[q].v].id]
        BY <2>3 DEF Renaming
      <4>1. call[q] # None /\ call[q].op = "rename"
              => call[q].v \in Values /\ value[call[q].v] # None
        BY RenameFields DEF RenameCall
      <4> QED BY <3>4, <4>1 DEF Renaming
    <3> QED BY <2>1, <2>2, <2>3, <3>3, <3>5, <3>6
  <2> QED BY <1>9, <2>4, <2>5
        DEF Tokengen, FindsDefault, MissesDefault, CreatesDefault, Dies, Restarts
<1>10. CASE UNCHANGED vars
    BY <1>10 DEF vars, Renaming
<1> QED BY <1>1, <1>2, <1>3, <1>4, <1>5, <1>6, <1>7, <1>8, <1>9, <1>10 DEF Next

LEMMA NamesInvariant == Spec => []NamesInv
BY NamesInit, NamesNext, PTL DEF Spec

(* SettledNames for any number of profiles, Profile values and goroutines. *)
THEOREM SettledNamesCorrect == Spec => []SettledNames
<1>1. NamesInv => SettledNames
  BY DEF SettledNames, Rows
<1> QED BY <1>1, NamesInvariant, PTL

(* The type invariant, with the names of the rows apart. *)
THEOREM TypeCorrect == Spec => []TypeOK
<1>1. ASSUME NamesInv PROVE TypeOK
  <2>1. ASSUME NEW n \in Names PROVE Cardinality(Named(n)) <= 1
    <3>1. CASE Named(n) = {}
      BY <3>1, FS_EmptySet
    <3>2. CASE Named(n) # {}
      <4>1. PICK i \in Named(n) : TRUE
        BY <3>2
      <4>2. Named(n) = {i}
        BY <1>1, <4>1, ConstantsAssumption DEF Named, Rows
      <4> QED BY <4>2, FS_Singleton
    <3> QED BY <3>1, <3>2
  <2> QED BY <1>1, <2>1 DEF TypeOK
<1> QED BY <1>1, NamesInvariant, PTL
-----------------------------------------------------------------------------
(* Rows are counted against changes.                                       *)

Used == {i \in Ids : had[i] # {}}

Calling == {p \in Callers : call[p] # None}

(* Whether tokengen may create its profile. *)
Vacant == IF Named(Default) = {} THEN 1 ELSE 0

(* A row is paid for by the one tokengen is granted or by a change, and a  *)
(* change pays for one row or one vacancy: a call in progress has not      *)
(* spent its own, and a vacancy is paid for until a row fills it.          *)
StraysInv ==
    /\ IsFiniteSet(Used)
    /\ IsFiniteSet(Calling)
    /\ Cardinality(Used) + Cardinality(Calling) + Vacant <= 1 + changes

HIDE DEF NamesInv, Types, NamesDiffer, RowsHaveTheirNames, FreeValues, Renamers

LEMMA StraysTypes ==
    ASSUME NamesInv
    PROVE  /\ name \in [Ids -> Names \cup {None}]
           /\ had \in [Ids -> SUBSET Names]
           /\ call \in [Callers -> Call \cup {None}]
           /\ changes \in Nat
           /\ \A i \in Ids : had[i] = {} => name[i] = None
<1>1. changes \in 0..MaxChanges /\ MaxChanges \in Nat
    BY ConstantsAssumption DEF NamesInv, Types
<1>2. \A i \in Ids : had[i] = {} => name[i] = None
    BY DEF NamesInv, Types, RowsHaveTheirNames
<1> QED BY <1>1, <1>2 DEF NamesInv, Types

Sound ==
    /\ IsFiniteSet(Used) /\ IsFiniteSet(Calling)
    /\ Cardinality(Used) \in Int /\ Cardinality(Calling) \in Int /\ Vacant \in Int
    /\ changes \in Int

(* What a step adds to the counts, in rows, calls, vacancies and changes. *)
Adds(u, c, w, k) ==
    /\ Cardinality(Used') = Cardinality(Used) + u
    /\ Cardinality(Calling') = Cardinality(Calling) + c
    /\ Vacant' <= Vacant + w
    /\ changes' = changes + k

(* A step that adds as much to changes as to the rest keeps the balance. *)
LEMMA StraysStep ==
    ASSUME StraysInv, Sound, Sound',
           NEW u \in Int, NEW c \in Int, NEW w \in Int, NEW k \in Int,
           Adds(u, c, w, k), u + c + w <= k
    PROVE  StraysInv'
<1>1. PICK us, cs, vs, ks, ws \in Int :
        us = Cardinality(Used) /\ cs = Cardinality(Calling) /\ vs = Vacant /\ ks = changes
          /\ ws = Vacant'
    BY DEF Sound
<1>2. us + cs + vs <= 1 + ks /\ ws <= vs + w
    BY <1>1 DEF StraysInv, Adds
<1>3. (us + u) + (cs + c) + ws <= 1 + (ks + k)
    BY ONLY <1>2, u + c + w <= k, u \in Int, c \in Int, w \in Int, k \in Int,
            us \in Int, cs \in Int, vs \in Int, ks \in Int, ws \in Int
<1> QED BY <1>1, <1>3 DEF StraysInv, Sound, Adds

(* The counts after a step are sound when the sets still are finite. *)
LEMMA StraysSound ==
    ASSUME NamesInv, NamesInv', StraysInv, IsFiniteSet(Used'), IsFiniteSet(Calling')
    PROVE  Sound /\ Sound'
<1>1. changes \in Int /\ changes' \in Int
    BY ConstantsAssumption DEF NamesInv, Types
<1>2. Vacant \in Int /\ Vacant' \in Int
    BY DEF Vacant
<1>3. /\ Cardinality(Used) \in Nat /\ Cardinality(Calling) \in Nat
      /\ Cardinality(Used') \in Nat /\ Cardinality(Calling') \in Nat
    BY FS_CardinalityType DEF StraysInv
<1> QED BY <1>1, <1>2, <1>3 DEF Sound, StraysInv

(* A fresh row that takes a name fills the vacancy if the name is Default. *)
LEMMA FreshRowTaken ==
    ASSUME NamesInv, StraysInv, NEW i \in FreshIds, NEW n \in Names, MayTake(i, n), SetName(i, n)
    PROVE  /\ IsFiniteSet(Used') /\ Cardinality(Used') = Cardinality(Used) + 1
           /\ Vacant' <= Vacant
           /\ n = Default => Vacant = 1 /\ Vacant' = 0
<1>1. i \in Ids /\ had[i] = {} /\ name[i] = None
    BY StraysTypes DEF FreshIds
<1>2. /\ name' = [name EXCEPT ![i] = n] /\ had' = [had EXCEPT ![i] = @ \cup {n}]
      /\ n # None
    BY ConstantsAssumption DEF SetName
<1>3. Used' = Used \cup {i} /\ i \notin Used
    BY <1>1, <1>2, StraysTypes DEF Used
<1>4. Named(Default) \subseteq Named(Default)'
    BY <1>1, <1>2, StraysTypes DEF Named, Rows
<1>5. n = Default => Named(Default) = {} /\ i \in Named(Default)'
  <2>1. i \notin Named(n)
    BY <1>1 DEF Named, Rows
  <2>2. Named(n) = {}
    BY <2>1 DEF MayTake
  <2> QED BY <1>1, <1>2, <2>2, StraysTypes DEF Named, Rows
<1>6. IsFiniteSet(Used') /\ Cardinality(Used') = Cardinality(Used) + 1
    BY <1>3, FS_AddElement DEF StraysInv
<1> QED BY <1>4, <1>5, <1>6 DEF Vacant

LEMMA StraysBegin ==
    ASSUME NamesInv, NamesInv', StraysInv, NEW p \in Callers, NEW c \in Call,
           Begin(p, c), UNCHANGED <<name, had>>
    PROVE  StraysInv'
<1>1. /\ call[p] = None /\ changes' = changes + 1 /\ call' = [call EXCEPT ![p] = c] /\ c # None
    BY ConstantsAssumption DEF Begin
<1>2. Calling' = Calling \cup {p} /\ p \notin Calling
    BY <1>1, StraysTypes DEF Calling
<1>3. IsFiniteSet(Calling') /\ Cardinality(Calling') = Cardinality(Calling) + 1
    BY <1>2, FS_AddElement DEF StraysInv
<1>4. Used' = Used /\ Vacant' = Vacant
    BY DEF Used, Vacant, Named, Rows
<1>5. Sound /\ Sound'
    BY <1>3, <1>4, StraysSound DEF StraysInv
<1>6. Adds(0, 1, 0, 1)
    BY <1>1, <1>3, <1>4, <1>5 DEF Adds, Sound
<1> QED BY <1>5, <1>6, StraysStep

LEMMA CallReturned ==
    ASSUME NamesInv, StraysInv, NEW p \in Callers, call[p] # None, Return(p)
    PROVE  IsFiniteSet(Calling') /\ Cardinality(Calling') = Cardinality(Calling) + (-1)
<1>1. Calling' = Calling \ {p} /\ p \in Calling
    BY StraysTypes DEF Calling, Return
<1>2. IsFiniteSet(Calling') /\ Cardinality(Calling') = Cardinality(Calling) - 1
    BY <1>1, FS_RemoveElement DEF StraysInv
<1>3. Cardinality(Calling) \in Nat
    BY FS_CardinalityType DEF StraysInv
<1> QED BY <1>2, <1>3

LEMMA StraysNext == NamesInv /\ NamesInv' /\ StraysInv /\ [Next]_vars => StraysInv'
<1> SUFFICES ASSUME NamesInv, NamesInv', StraysInv, [Next]_vars PROVE StraysInv'
    OBVIOUS
<1> USE ConstantsAssumption
<1>a. ASSUME UNCHANGED <<name, had>> PROVE Used' = Used /\ Vacant' = Vacant
    BY <1>a DEF Used, Vacant, Named, Rows
<1>b. ASSUME UNCHANGED call PROVE Calling' = Calling
    BY <1>b DEF Calling
<1>c. IsFiniteSet(Used) /\ IsFiniteSet(Calling) /\ Vacant' \in 0..1 /\ Vacant \in 0..1
    BY DEF StraysInv, Vacant
<1>1. ASSUME NEW p \in Callers, NEW n \in Names, BeginNewProfile(p, n) PROVE StraysInv'
    BY <1>1, StraysBegin DEF BeginNewProfile, Call
<1>2. ASSUME NEW p \in Callers, NEW v \in Values, NEW n \in Names, BeginRename(p, v, n)
      PROVE StraysInv'
  <2>1. value[v].name \in Names
    BY <1>2 DEF BeginRename, NamesInv, Types, Profile
  <2> QED BY <1>2, <2>1, StraysBegin DEF BeginRename, Call
<1>3. ASSUME NEW p \in Callers, NewProfile(p) PROVE StraysInv'
  <2>1. call[p] # None /\ Return(p) /\ changes' = changes /\ call[p].to \in Names
    BY <1>3, StraysTypes DEF NewProfile, Call
  <2>2. IsFiniteSet(Calling') /\ Cardinality(Calling') = Cardinality(Calling) + (-1)
    BY <2>1, CallReturned
  <2>3. CASE UNCHANGED <<name, had>>
    <3>1. Sound /\ Sound'
      BY <1>a, <1>c, <2>2, <2>3, StraysSound
    <3>2. Adds(0, -1, 0, 0)
      BY <1>a, <2>1, <2>2, <2>3, <3>1 DEF Adds, Sound
    <3> QED BY <3>1, <3>2, StraysStep
  <2>4. ASSUME NEW i \in FreshIds, MayTake(i, call[p].to), SetName(i, call[p].to)
        PROVE  StraysInv'
    <3>1. /\ IsFiniteSet(Used') /\ Cardinality(Used') = Cardinality(Used) + 1
          /\ Vacant' <= Vacant
      BY <2>1, <2>4, FreshRowTaken
    <3>2. Sound /\ Sound'
      BY <2>2, <3>1, StraysSound
    <3>3. Adds(1, -1, 0, 0)
      BY <2>1, <2>2, <3>1, <3>2 DEF Adds, Sound
    <3> QED BY <3>2, <3>3, StraysStep
  <2> QED BY <1>3, <2>3, <2>4 DEF NewProfile
<1>4. ASSUME NEW i \in Ids, DeleteProfile(i) PROVE StraysInv'
  <2>1. UNCHANGED <<had, call>> /\ changes' = changes + 1
    BY <1>4 DEF DeleteProfile
  <2>2. Used' = Used /\ Calling' = Calling
    BY <2>1 DEF Used, Calling
  <2>3. Sound /\ Sound'
    BY <1>c, <2>2, StraysSound
  <2>4. Adds(0, 0, 1, 1)
    BY <1>c, <2>1, <2>2, <2>3 DEF Adds, Sound
  <2> QED BY <2>3, <2>4, StraysStep
<1>5. ASSUME NEW p \in Callers, RenameLocks(p) PROVE StraysInv'
  <2>1. UNCHANGED <<name, had, changes>> /\ call[p] # None
        /\ call' = [call EXCEPT ![p] = Updating(call[p].v, call[p].to, value[call[p].v].name)]
    BY <1>5 DEF RenameLocks, Renaming
  <2>2. call' \in [Callers -> Call \cup {None}] /\ call'[p] # None
    <3>1. call'[p] = Updating(call[p].v, call[p].to, value[call[p].v].name)
      BY <2>1, StraysTypes
    <3>2. call[p] \in RenameCall /\ value[call[p].v] \in Profile
      BY <1>5, RenameFields DEF RenameLocks, Renaming
    <3>3. Updating(call[p].v, call[p].to, value[call[p].v].name) \in Call
      BY <3>2 DEF RenameCall, Profile, Updating, Call
    <3> QED BY <3>1, <3>3, <2>1, StraysTypes
  <2>3. Calling' = Calling
    BY <2>1, <2>2, StraysTypes DEF Calling
  <2> QED BY <1>a, <2>1, <2>3 DEF StraysInv
<1>6. ASSUME NEW p \in Callers, RenameCommits(p) \/ RenameFails(p) PROVE StraysInv'
  <2> DEFINE i == value[call[p].v].id
  <2>1. call[p] # None /\ Return(p) /\ changes' = changes
    BY <1>6 DEF RenameCommits, RenameFails, Renaming
  <2>2. IsFiniteSet(Calling') /\ Cardinality(Calling') = Cardinality(Calling) + (-1)
    BY <2>1, CallReturned
  <2>3. Used' = Used
    <3>1. CASE i \in Rows /\ SetName(i, call[p].to)
      <4>1. i \in Ids /\ had[i] # {}
        BY <3>1, StraysTypes DEF Rows
      <4>2. had' = [had EXCEPT ![i] = @ \cup {call[p].to}]
        BY <3>1 DEF SetName
      <4> QED BY <4>1, <4>2, StraysTypes DEF Used
    <3>2. CASE had' = had
      BY <3>2 DEF Used
    <3> QED BY <1>6, <3>1, <3>2 DEF RenameCommits, RenameFails
  <2>4. Sound /\ Sound'
    BY <1>c, <2>2, <2>3, StraysSound
  <2>5. Adds(0, -1, 1, 0)
    BY <1>c, <2>1, <2>2, <2>3, <2>4 DEF Adds, Sound
  <2> QED BY <2>4, <2>5, StraysStep
<1>7. ASSUME NEW t \in Runs, Tokengen(t) PROVE StraysInv'
  <2>1. UNCHANGED <<call, changes>>
    BY <1>7 DEF Tokengen, FindsDefault, MissesDefault, CreatesDefault, Dies, Restarts
  <2>2. CASE UNCHANGED <<name, had>>
    BY <1>a, <1>b, <2>1, <2>2 DEF StraysInv
  <2>3. ASSUME NEW i \in FreshIds, MayTake(i, Default), SetName(i, Default)
        PROVE  StraysInv'
    <3>1. /\ IsFiniteSet(Used') /\ Cardinality(Used') = Cardinality(Used) + 1
          /\ Vacant = 1 /\ Vacant' = 0
      BY <2>3, FreshRowTaken
    <3>2. Calling' = Calling
      BY <1>b, <2>1
    <3>3. Sound /\ Sound'
      BY <1>c, <3>1, <3>2, StraysSound
    <3>4. Adds(1, 0, -1, 0)
      BY <2>1, <3>1, <3>2, <3>3 DEF Adds, Sound
    <3> QED BY <3>3, <3>4, StraysStep
  <2> QED BY <1>7, <2>2, <2>3
        DEF Tokengen, FindsDefault, MissesDefault, CreatesDefault, Dies, Restarts
<1>8. CASE UNCHANGED <<name, had, call, changes>>
    BY <1>a, <1>b, <1>8 DEF StraysInv
<1>9. ASSUME NEW v \in Values, NEW i \in Ids, ReadProfile(v, i) PROVE StraysInv'
    BY <1>8, <1>9 DEF ReadProfile
<1>10. CASE UNCHANGED vars
    BY <1>8, <1>10 DEF vars
<1> QED BY <1>1, <1>2, <1>3, <1>4, <1>5, <1>6, <1>7, <1>9, <1>10 DEF Next

LEMMA StraysInit == Init => StraysInv
<1> SUFFICES ASSUME Init PROVE StraysInv
    OBVIOUS
<1>1. Used = {} /\ Calling = {} /\ changes = 0
    BY DEF Init, Used, Calling
<1>2. Vacant \in 0..1
    BY DEF Vacant
<1> QED BY <1>1, <1>2, FS_EmptySet DEF StraysInv

(* NoStrays for any number of rows, runs and goroutines: however runs of   *)
(* cmd/tokengen race each other and the application, die and are started   *)
(* again, there is at most one row more than the changes that were begun.  *)
THEOREM NoStraysCorrect == Spec => []NoStrays
<1>1. NamesInv /\ StraysInv => NoStrays
  <2> SUFFICES ASSUME NamesInv, StraysInv PROVE Cardinality(Used) <= 1 + changes
    BY DEF NoStrays, Used
  <2>1. /\ Cardinality(Used) \in Nat /\ Cardinality(Calling) \in Nat
        /\ Vacant \in 0..1 /\ changes \in Nat
    BY FS_CardinalityType, StraysTypes DEF StraysInv, Vacant
  <2> QED BY <2>1 DEF StraysInv
<1> QED BY <1>1, StraysInit, StraysNext, NamesInvariant, PTL DEF Spec

(* A run of tokengen that goes on has a row that was there.                *)
ResultsAreRows == \A t \in Runs : result[t] # None => result[t] \in Used

LEMMA ResultsNext == NamesInv /\ ResultsAreRows /\ [Next]_vars => ResultsAreRows'
<1> SUFFICES ASSUME NamesInv, ResultsAreRows, [Next]_vars PROVE ResultsAreRows'
    OBVIOUS
<1> USE ConstantsAssumption
<1>1. Used \subseteq Used'
  <2>1. CASE UNCHANGED had
    BY <2>1 DEF Used
  <2>2. ASSUME NEW i, NEW n, SetName(i, n) PROVE Used \subseteq Used'
    BY <2>2, StraysTypes DEF SetName, Used
  <2>3. ASSUME NEW p \in Callers, RenameCommits(p) \/ NewProfile(p) PROVE Used \subseteq Used'
    BY <2>1, <2>2, <2>3 DEF RenameCommits, NewProfile
  <2>4. ASSUME NEW t \in Runs, Tokengen(t) PROVE Used \subseteq Used'
    BY <2>1, <2>2, <2>4
       DEF Tokengen, FindsDefault, MissesDefault, CreatesDefault, Dies, Restarts
  <2> QED BY <2>1, <2>3, <2>4
          DEF Next, vars, BeginNewProfile, BeginRename, RenameLocks, RenameFails, ReadProfile,
              DeleteProfile
<1>2. CASE UNCHANGED result
    BY <1>1, <1>2 DEF ResultsAreRows
<1>3. ASSUME NEW t \in Runs, FindsDefault(t) \/ CreatesDefault(t) PROVE ResultsAreRows'
  <2>1. PICK i \in Ids : result' = [result EXCEPT ![t] = i] /\ i \in Used'
    <3>1. ASSUME NEW i \in Named(Default) PROVE i \in Ids /\ i \in Used
      BY StraysTypes DEF Named, Rows, Used
    <3>2. ASSUME NEW i \in FreshIds, SetName(i, Default) PROVE i \in Ids /\ i \in Used'
      BY <3>2, StraysTypes DEF FreshIds, SetName, Used
    <3> QED BY <1>1, <1>3, <3>1, <3>2 DEF FindsDefault, CreatesDefault
  <2> QED BY <1>1, <2>1 DEF ResultsAreRows, NamesInv, Types
<1> QED BY <1>2, <1>3
        DEF Next, vars, BeginNewProfile, BeginRename, NewProfile, RenameLocks, RenameCommits,
            RenameFails, ReadProfile, DeleteProfile, Tokengen, MissesDefault, Dies, Restarts

(* As long as the application changes no profile, all runs of tokengen go  *)
(* on with the same one, whichever of them created it and whichever died   *)
(* on the way: the unique index and a fresh start are enough, with no lock *)
(* around FindProfile and NewProfile.                                      *)
OneProfile ==
    changes = 0 =>
        \A t, u \in Runs : result[t] # None /\ result[u] # None => result[t] = result[u]

THEOREM OneProfileCorrect == Spec => []OneProfile
<1>1. Init => ResultsAreRows
    BY DEF Init, ResultsAreRows
<1>2. NoStrays /\ IsFiniteSet(Used) /\ ResultsAreRows => OneProfile
  <2> SUFFICES ASSUME NoStrays, IsFiniteSet(Used), ResultsAreRows, changes = 0,
                      NEW t \in Runs, NEW u \in Runs, result[t] # None, result[u] # None
               PROVE  result[t] = result[u]
    BY DEF OneProfile
  <2>1. Cardinality(Used) <= 1 /\ Cardinality(Used) \in Nat
    BY FS_CardinalityType DEF NoStrays, Used
  <2>2. Cardinality(Used) = 0 \/ Cardinality(Used) = 1
    BY <2>1
  <2>3. Used = {} \/ \E i : Used = {i}
    BY <2>2, FS_EmptySet, FS_Singleton
  <2> QED BY <2>3 DEF ResultsAreRows
<1>3. StraysInv => IsFiniteSet(Used)
    BY DEF StraysInv
<1> QED BY <1>1, <1>2, <1>3, ResultsNext, StraysInit, StraysNext, NamesInvariant,
           NoStraysCorrect, PTL DEF Spec
=============================================================================
