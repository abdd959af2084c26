----------------------------- MODULE NodeIoProofs -----------------------------
(***************************************************************************)
(* What the serial ports of a node owe their users, for any number of      *)
(* nodes, any length of a line and any commands: the saved configuration   *)
(* survives every reset, a line that fits is executed whole, and what the  *)
(* core is told of the receiver is what the receiver said.                 *)
(***************************************************************************)
EXTENDS NodeIo, SequenceTheorems, FiniteSetTheorems, TLAPS

-----------------------------------------------------------------------------
(* The store.                                                              *)

Key == {"name", "node_id", "gps"}

(* What save still has to do, from the first key to the commit.            *)
Remaining ==
  {Idle, <<"name", "node_id", "gps", Commit>>, <<"node_id", "gps", Commit>>,
   <<"gps", Commit>>, <<Commit>>}

(* A configuration that belongs to one node.                               *)
InRange(c) == c.node_id \in 0 .. NodeCount - 1
OneIdentity(c) == c.name \in {Custom, NameOf(c.node_id)}

StoreTypes ==
  /\ up \in BOOLEAN /\ space \in BOOLEAN /\ dirty \in BOOLEAN /\ torn \in BOOLEAN
  /\ DOMAIN config = Key /\ config = [k \in Key |-> config[k]]
  /\ nvs = [k \in Key |-> nvs[k]]
  /\ \A k \in Key : nvs[k] = Absent \/ nvs[k] = [value |-> nvs[k].value]
  /\ todo \in Remaining

(* Between saves the flash holds one identity unless a save was torn; a    *)
(* key has been written only once the namespace exists.                    *)
StoreInv ==
  /\ StoreTypes
  /\ InRange(config) /\ InRange(Loaded(nvs))
  /\ torn \/ OneIdentity(config)
  /\ torn \/ todo # Idle \/ OneIdentity(Loaded(nvs))
  /\ ~up => todo = Idle
  /\ todo \in {Idle, Saving} \/ space
  /\ todo # Idle => dirty
  /\ RestartKeepsConfig

LEMMA AppendToThree ==
  ASSUME NEW a, NEW b, NEW c, NEW d
  PROVE  Append(<<a, b, c>>, d) = <<a, b, c, d>>
<1> DEFINE k == <<a, b, c>>
           l == <<a, b, c, d>>
           A == {a, b, c, d}
<1>1. k \in Seq(A) /\ d \in A
  OBVIOUS
<1>2. Len(k) = 3
  OBVIOUS
<1>3. l \in Seq(A) /\ Len(l) = 4 /\ l[1] = k[1] /\ l[2] = k[2] /\ l[3] = k[3] /\ l[4] = d
  OBVIOUS
<1> HIDE DEF k, l, A
<1> DEFINE m == Append(k, d)
<1>4. m \in Seq(A) /\ Len(m) = Len(k) + 1
  BY <1>1
<1>5. /\ \A i \in 1 .. Len(k) : m[i] = k[i]
      /\ m[Len(k) + 1] = d
  BY <1>1
<1> HIDE DEF m
<1>6. m[1] = k[1] /\ m[2] = k[2] /\ m[3] = k[3] /\ m[4] = d /\ Len(m) = 4
  BY <1>2, <1>4, <1>5
<1>7. \A i \in 1 .. 4 : m[i] = l[i]
  BY <1>3, <1>6
<1>8. Len(m) = Len(l) /\ m \in Seq(A) /\ l \in Seq(A)
  BY <1>3, <1>4, <1>6
<1>9. m = l
  BY <1>3, <1>7, <1>8, SeqEqual
<1> QED BY <1>9 DEF k, l, m

LEMMA SavingIs == Saving = <<"name", "node_id", "gps", Commit>>
BY AppendToThree DEF Saving, Keys

LEMMA GivenFacts ==
  /\ Given \in SUBSET Key
  /\ todo = <<Commit>> => Given = Key
BY DEF Given, Keys, Key, Contains, Commit

LEMMA DefaultsFacts ==
  /\ DOMAIN Defaults = Key
  /\ Defaults = [k \in Key |-> Defaults[k]]
  /\ InRange(Defaults) /\ OneIdentity(Defaults)
  /\ Blank = [k \in Key |-> Absent]
  /\ Loaded(Blank) = Defaults
<1>1. DOMAIN Defaults = Key /\ Defaults = [k \in Key |-> Defaults[k]]
  BY DEF Defaults, Key
<1>2. Defaults.name = NameOf(DefaultId) /\ Defaults.node_id = 0
  BY DEF Defaults, DefaultId
<1>3. Blank = [k \in Key |-> Absent]
  BY <1>1 DEF Blank
<1>4. Loaded(Blank) = Defaults
  BY <1>1, <1>3 DEF Loaded
<1> QED
  BY <1>1, <1>2, <1>3, <1>4, ConsoleAssumption DEF InRange, OneIdentity, DefaultId

LEMMA AbsentDiffers == ASSUME NEW x PROVE [value |-> x] # Absent
<1>1. DOMAIN [value |-> x] = {"value"} /\ DOMAIN Absent = {"absent"}
  BY DEF Absent
<1>2. {"value"} # {"absent"}
  OBVIOUS
<1> QED BY <1>1, <1>2

(* What the flash may hold after a commit or a reset.                      *)
LEMMA UncommittedFacts ==
  ASSUME StoreInv, NEW kept \in SUBSET Key, nvs' = Uncommitted(kept)
  PROVE  /\ nvs' = [k \in Key |-> nvs'[k]]
         /\ \A k \in Key : nvs'[k] = Absent \/ nvs'[k] = [value |-> nvs'[k].value]
         /\ InRange(Loaded(nvs'))
         /\ kept = {} => nvs' = nvs
         /\ kept = Key => Loaded(nvs') = config
<1>1. /\ nvs = [k \in Key |-> nvs[k]] /\ config = [k \in Key |-> config[k]]
      /\ \A k \in Key : nvs[k] = Absent \/ nvs[k] = [value |-> nvs[k].value]
      /\ InRange(config) /\ InRange(Loaded(nvs))
  BY DEF StoreInv, StoreTypes
<1>2. nvs' = [k \in Key |-> IF k \in kept THEN [value |-> config[k]] ELSE nvs[k]]
  BY DefaultsFacts DEF Uncommitted
<1>3. \A k \in kept : Loaded(nvs')[k] = config[k]
  BY <1>2, AbsentDiffers, DefaultsFacts DEF Loaded
<1>4. \A k \in Key \ kept : Loaded(nvs')[k] = Loaded(nvs)[k]
  BY <1>2, DefaultsFacts DEF Loaded
<1>5. Loaded(nvs') = [k \in Key |-> Loaded(nvs')[k]]
  BY DefaultsFacts DEF Loaded
<1>6. InRange(Loaded(nvs'))
  BY <1>1, <1>3, <1>4 DEF InRange, Key
<1>7. kept = Key => Loaded(nvs') = config
  BY <1>1, <1>3, <1>5
<1>8. kept = {} => nvs' = nvs
  BY <1>1, <1>2
<1> QED BY <1>1, <1>2, <1>6, <1>7, <1>8

LEMMA StoreInit == ConsoleInit => StoreInv
<1> SUFFICES ASSUME ConsoleInit PROVE StoreInv
  OBVIOUS
<1>1. up = FALSE /\ config = Defaults /\ nvs = Blank /\ space = FALSE /\ todo = Idle
      /\ dirty = FALSE /\ torn = FALSE
  BY DEF ConsoleInit
<1>2. StoreTypes
  <2>1. up \in BOOLEAN /\ space \in BOOLEAN /\ dirty \in BOOLEAN /\ torn \in BOOLEAN
    BY <1>1, Zenon
  <2> QED BY <1>1, <2>1, DefaultsFacts DEF StoreTypes, Remaining
<1> QED BY <1>1, <1>2, DefaultsFacts DEF StoreInv, RestartKeepsConfig

(* One lemma per operation of the console.                                 *)
LEMMA BootStore == ASSUME StoreInv, Boot PROVE StoreInv'
<1>1. /\ todo = Idle /\ up' = TRUE
      /\ nvs = [k \in Key |-> nvs[k]]
      /\ \A k \in Key : nvs[k] = Absent \/ nvs[k] = [value |-> nvs[k].value]
      /\ space \in BOOLEAN /\ torn \in BOOLEAN /\ dirty \in BOOLEAN
  BY DEF Boot, StoreInv, StoreTypes
<1>2. Loaded(nvs) = [k \in Key |-> Loaded(nvs)[k]] /\ DOMAIN Loaded(nvs) = Key
  BY DefaultsFacts DEF Loaded
<1>3. InRange(Loaded(nvs)) /\ (torn \/ OneIdentity(Loaded(nvs)))
  BY <1>1 DEF StoreInv
<1>4. Saving # Idle /\ Saving \in Remaining
  BY SavingIs DEF Remaining, Idle
<1>5. ASSUME NEW unread \in SUBSET Key, config' = LoadedWithout(unread), todo' = Idle,
             torn' = (torn \/ unread \cap {"name", "node_id"} # {}),
             dirty' = (config' # Loaded(nvs)), space, UNCHANGED <<nvs, space>>
      PROVE  StoreInv'
  <2>1. config' = [k \in Key |-> IF k \in unread THEN Defaults[k] ELSE Loaded(nvs)[k]]
    BY <1>5, DefaultsFacts DEF LoadedWithout
  <2>2. up' \in BOOLEAN /\ space' \in BOOLEAN /\ dirty' \in BOOLEAN /\ torn' \in BOOLEAN
    BY <1>1, <1>5, Zenon
  <2>3. StoreTypes'
    BY <1>1, <1>5, <2>1, <2>2 DEF StoreTypes, Remaining
  <2>4. InRange(config')
    BY <1>3, <2>1, DefaultsFacts DEF InRange, Key
  <2>5. torn' \/ OneIdentity(config')
    BY <1>3, <1>5, <2>1 DEF OneIdentity, Key
  <2>6. InRange(config)' /\ InRange(Loaded(nvs))' /\ (torn \/ OneIdentity(config))'
        /\ (torn \/ todo # Idle \/ OneIdentity(Loaded(nvs)))'
    BY <1>3, <1>5, <2>4, <2>5 DEF Loaded, InRange, OneIdentity
  <2>7. RestartKeepsConfig'
    BY <1>5 DEF RestartKeepsConfig, Loaded
  <2> QED BY <1>1, <1>5, <2>3, <2>6, <2>7 DEF StoreInv
<1>6. ASSUME config' = Defaults, dirty' = TRUE, torn' \in BOOLEAN, space' \in BOOLEAN,
             nvs' \in {nvs, Blank},
             todo' = Saving \/ (todo' = Idle /\ nvs' = nvs /\ torn' = torn)
      PROVE  StoreInv'
  <2>1. StoreTypes'
    <3>1. up' \in BOOLEAN /\ dirty' \in BOOLEAN
      BY <1>1, <1>6, Zenon
    <3> QED BY <1>1, <1>4, <1>6, <3>1, DefaultsFacts DEF StoreTypes, Remaining
  <2>2. InRange(config)' /\ OneIdentity(config)' /\ InRange(Loaded(nvs))'
        /\ (torn \/ todo # Idle \/ OneIdentity(Loaded(nvs)))'
    BY <1>3, <1>4, <1>6, DefaultsFacts DEF Loaded, InRange, OneIdentity
  <2> QED BY <1>1, <1>6, <2>1, <2>2 DEF StoreInv, RestartKeepsConfig
<1>7. CASE space /\ \E unread \in SUBSET DOMAIN Defaults :
                       /\ config' = LoadedWithout(unread)
                       /\ torn' = (torn \/ unread \cap {"name", "node_id"} # {})
           /\ dirty' = (config' # Loaded(nvs)) /\ todo' = Idle /\ UNCHANGED <<nvs, space>>
  BY <1>5, <1>7, DefaultsFacts
<1>8. CASE config' = Defaults /\ todo' = Saving /\ dirty' = TRUE /\ torn' = FALSE
           /\ (UNCHANGED <<nvs, space>> \/ (nvs' = Blank /\ space' = FALSE))
  <2>1. torn' \in BOOLEAN /\ space' \in BOOLEAN
    BY <1>1, <1>8, Zenon
  <2> QED BY <1>6, <1>8, <2>1
<1>9. CASE config' = Defaults /\ todo' = Idle /\ dirty' = TRUE
           /\ UNCHANGED <<nvs, space, torn>>
  <2>1. torn' \in BOOLEAN /\ space' \in BOOLEAN
    BY <1>1, <1>9, Zenon
  <2> QED BY <1>6, <1>9, <2>1
<1> QED BY <1>7, <1>8, <1>9 DEF Boot

(* While save runs, every key is still to be given or has been.            *)
LEMMA RemainingSteps ==
  ASSUME todo \in Remaining, todo # Idle
  PROVE  /\ Head(todo) # Commit => Tail(todo) \in Remaining \ {Idle}
         /\ Head(todo) = Commit => todo = <<Commit>>
<1>1. CASE todo = <<"name", "node_id", "gps", Commit>>
  BY <1>1 DEF Remaining, Idle, Commit
<1>2. CASE todo = <<"node_id", "gps", Commit>>
  BY <1>2 DEF Remaining, Idle, Commit
<1>3. CASE todo = <<"gps", Commit>>
  BY <1>3 DEF Remaining, Idle, Commit
<1>4. CASE todo = <<Commit>>
  BY <1>4 DEF Remaining, Idle, Commit
<1> QED BY <1>1, <1>2, <1>3, <1>4 DEF Remaining

LEMMA SaveStore == ASSUME StoreInv, SaveStep PROVE StoreInv'
<1>1. /\ todo' \in Remaining \ {Idle} /\ space' = TRUE
      /\ UNCHANGED <<up, config, nvs, dirty, torn>>
  BY RemainingSteps DEF SaveStep, StoreInv, StoreTypes
<1>2. space' \in BOOLEAN
  BY <1>1, Zenon
<1>3. StoreTypes'
  BY <1>1, <1>2 DEF StoreInv, StoreTypes
<1>4. InRange(config)' /\ InRange(Loaded(nvs))' /\ (torn \/ OneIdentity(config))'
  BY <1>1 DEF StoreInv, InRange, OneIdentity, Loaded
<1>5. (~up => todo = Idle)' /\ (todo # Idle => dirty)'
  BY <1>1 DEF StoreInv, SaveStep
<1> QED BY <1>1, <1>3, <1>4, <1>5 DEF StoreInv, RestartKeepsConfig

LEMMA SavedStore == ASSUME StoreInv, Saved PROVE StoreInv'
<1>1. /\ todo = <<Commit>> /\ nvs' = Uncommitted(Key) /\ todo' = Idle /\ dirty' = FALSE
      /\ UNCHANGED <<up, config, space, torn>> /\ Given = Key
  BY RemainingSteps, GivenFacts DEF Saved, StoreInv, StoreTypes
<1>2. /\ nvs' = [k \in Key |-> nvs'[k]]
      /\ \A k \in Key : nvs'[k] = Absent \/ nvs'[k] = [value |-> nvs'[k].value]
      /\ Loaded(nvs') = config
  BY <1>1, UncommittedFacts
<1>3. space
  BY <1>1, SavingIs DEF StoreInv, Idle
<1>4. dirty' \in BOOLEAN
  BY <1>1, Zenon
<1>5. Loaded(nvs)' = config
  BY <1>2 DEF Loaded
<1> QED BY <1>1, <1>2, <1>3, <1>4, <1>5
        DEF StoreInv, StoreTypes, Remaining, InRange, OneIdentity, RestartKeepsConfig

(* A save that fails and a reset leave any part of what was given.         *)
LEMMA TornStore ==
  ASSUME StoreInv, NEW kept \in SUBSET Key, nvs' = Uncommitted(kept), todo' = Idle,
         space' = space, up' \in BOOLEAN, dirty' \in BOOLEAN, torn' \in BOOLEAN,
         config' = config \/ config' = Defaults,
         torn' \/ (kept = {} /\ torn' = torn /\ todo = Idle),
         ~(up' /\ ~dirty')
  PROVE  StoreInv'
<1>1. /\ nvs' = [k \in Key |-> nvs'[k]]
      /\ \A k \in Key : nvs'[k] = Absent \/ nvs'[k] = [value |-> nvs'[k].value]
      /\ InRange(Loaded(nvs')) /\ (kept = {} => nvs' = nvs)
  BY UncommittedFacts
<1>2. InRange(config') /\ (torn' \/ OneIdentity(config'))
  BY DefaultsFacts DEF StoreInv
<1>3. torn' \/ OneIdentity(Loaded(nvs'))
  BY <1>1 DEF StoreInv
<1>4. StoreTypes'
  BY <1>1, DefaultsFacts DEF StoreInv, StoreTypes, Remaining
<1>5. InRange(Loaded(nvs))' /\ InRange(config)' /\ (torn \/ OneIdentity(config))'
      /\ (torn \/ todo # Idle \/ OneIdentity(Loaded(nvs)))'
  BY <1>1, <1>2, <1>3 DEF InRange, OneIdentity, Loaded
<1> QED BY <1>4, <1>5 DEF StoreInv, RestartKeepsConfig

LEMMA FailStore == ASSUME StoreInv, SaveFails PROVE StoreInv'
<1>1. PICK kept \in SUBSET Key : nvs' = Uncommitted(kept)
  BY GivenFacts DEF SaveFails
<1>2. /\ todo' = Idle /\ space' = space /\ up' = up /\ config' = config
      /\ dirty' = TRUE /\ torn' = TRUE
  BY DEF SaveFails
<1>3. dirty' \in BOOLEAN /\ torn' \in BOOLEAN /\ up' \in BOOLEAN
  BY <1>2, Zenon DEF StoreInv, StoreTypes
<1> QED BY <1>1, <1>2, <1>3, TornStore

LEMMA ResetStore == ASSUME StoreInv, Reset PROVE StoreInv'
<1>1. PICK kept \in SUBSET Key : nvs' = Uncommitted(kept) /\ (todo = Idle => kept = {})
  BY GivenFacts DEF Reset
<1>2. /\ todo' = Idle /\ space' = space /\ up' = FALSE /\ config' = Defaults
      /\ dirty' = FALSE /\ torn' = (torn \/ todo # Idle)
  BY DEF Reset
<1>3. dirty' \in BOOLEAN /\ torn' \in BOOLEAN /\ up' \in BOOLEAN
  BY <1>2, Zenon DEF StoreInv, StoreTypes
<1>4. torn' \/ (kept = {} /\ torn' = torn /\ todo = Idle)
  BY <1>1, <1>2 DEF StoreInv, StoreTypes
<1> QED BY <1>1, <1>2, <1>3, <1>4, TornStore

LEMMA CommandStore == ASSUME StoreInv, EndOfLine PROVE StoreInv'
<1> DEFINE c == Command(line)
<1>1. /\ config' = Applied(c) /\ up /\ todo = Idle /\ UNCHANGED <<up, nvs, space>>
      /\ todo' = IF c.cmd \in {"name", "gps", "node_id"} THEN Saving ELSE Idle
      /\ torn' = (torn /\ c.cmd # "node_id")
      /\ dirty' = (dirty \/ c.cmd \in {"name", "gps", "node_id"})
  BY DEF EndOfLine, Listening
<1>2. c.cmd = "node_id" => c.value \in 0 .. NodeCount - 1
  BY DEF Command
<1> HIDE DEF c
<1>3. Saving # Idle /\ Saving \in Remaining
  BY SavingIs DEF Remaining, Idle
<1>4. dirty' \in BOOLEAN /\ torn' \in BOOLEAN
  BY <1>1, Zenon DEF StoreInv, StoreTypes
<1>5. /\ DOMAIN config' = Key /\ config' = [k \in Key |-> config'[k]]
      /\ InRange(config') /\ (torn' \/ OneIdentity(config'))
      /\ c.cmd \notin {"name", "gps", "node_id"} => config' = config
  <2>1. DOMAIN config = Key /\ config = [k \in Key |-> config[k]]
        /\ InRange(config) /\ (torn \/ OneIdentity(config))
    BY DEF StoreInv, StoreTypes
  <2>2. CASE c.cmd = "name"
    BY <1>1, <2>1, <2>2 DEF Applied, InRange, OneIdentity, Key
  <2>3. CASE c.cmd = "gps"
    BY <1>1, <2>1, <2>3 DEF Applied, InRange, OneIdentity, Key
  <2>4. CASE c.cmd = "node_id"
    BY <1>1, <1>2, <2>1, <2>4 DEF Applied, InRange, OneIdentity, Key
  <2>5. CASE c.cmd \notin {"name", "gps", "node_id"}
    BY <1>1, <2>1, <2>5 DEF Applied
  <2> QED BY <2>2, <2>3, <2>4, <2>5
<1>6. StoreTypes'
  BY <1>1, <1>3, <1>4, <1>5 DEF StoreInv, StoreTypes, Remaining
<1>7. InRange(config)' /\ InRange(Loaded(nvs))' /\ (torn \/ OneIdentity(config))'
      /\ (torn \/ todo # Idle \/ OneIdentity(Loaded(nvs)))'
  BY <1>1, <1>3, <1>5 DEF StoreInv, InRange, OneIdentity, Loaded
<1>8. RestartKeepsConfig'
  BY <1>1, <1>3, <1>5 DEF StoreInv, RestartKeepsConfig, Loaded
<1> QED BY <1>1, <1>3, <1>6, <1>7, <1>8 DEF StoreInv

LEMMA StoreStep == ASSUME StoreInv, [Receiver \/ Console]_vars PROVE StoreInv'
<1>1. CASE Type \/ EmptyLine \/ UNCHANGED consoleVars
  <2>1. UNCHANGED <<up, config, nvs, space, todo, dirty, torn>>
    BY <1>1 DEF Type, EmptyLine, consoleVars
  <2> QED BY <2>1 DEF StoreInv, StoreTypes, InRange, OneIdentity, Loaded, RestartKeepsConfig
<1> QED BY <1>1, BootStore, SaveStore, SavedStore, FailStore, ResetStore, CommandStore
        DEF Receiver, Console, ConsoleNext, vars

THEOREM StoreInductive == Spec => []StoreInv
<1>1. Init => StoreInv
  BY StoreInit DEF Init
<1>2. StoreInv /\ [Receiver \/ Console]_vars => StoreInv'
  BY StoreStep
<1> QED BY <1>1, <1>2, PTL DEF Spec

(* Whatever was cut short before, a restart of a node whose configuration  *)
(* was saved brings back that configuration.                               *)
THEOREM RestartKeeps == Spec => []RestartKeepsConfig
BY StoreInductive, PTL DEF StoreInv

(* The number a node runs with is always that of a node, and its name is   *)
(* another node's only after a save that was cut or a key not read.        *)
THEOREM IdentityIsSound == Spec => []IdentitySound
<1>1. StoreInv => IdentitySound
  BY DEF StoreInv, IdentitySound, InRange, OneIdentity
<1> QED BY <1>1, StoreInductive, PTL

-----------------------------------------------------------------------------
(* The line.                                                               *)

(* Until it overflows the buffer holds what was typed.                     *)
LineInv ==
  /\ line \in Seq(Chunk) /\ Len(line) < LineMax
  /\ typed \in 0 .. LineMax
  /\ typed < LineMax => typed = Len(line)

LEMMA TypeLine == ASSUME LineInv, Type PROVE LineInv'
<1> DEFINE n == Len(line)
<1>1. PICK c \in Chunk : line' = Buffered(c)
  BY DEF Type
<1>2. /\ n \in Nat /\ n < LineMax /\ LineMax \in Nat /\ line \in Seq(Chunk)
      /\ typed \in 0 .. LineMax /\ (typed < LineMax => typed = n)
      /\ typed' = IF typed < LineMax THEN typed + 1 ELSE LineMax
  BY ConsoleAssumption DEF LineInv, Type
<1>3. Append(line, c) \in Seq(Chunk) /\ Len(Append(line, c)) = n + 1
  BY <1>2
<1>4. CASE n + 1 < LineMax
  <2>1. line' = Append(line, c)
    BY <1>1, <1>4 DEF Buffered
  <2> QED BY <1>2, <1>3, <1>4, <2>1 DEF LineInv
<1>5. CASE ~(n + 1 < LineMax)
  <2>1. line' = <<>>
    BY <1>1, <1>5 DEF Buffered
  <2>2. Len(line') = 0 /\ line' \in Seq(Chunk)
    BY <2>1
  <2>3. typed' = LineMax
    BY <1>2, <1>5
  <2> QED BY <2>2, <2>3, ConsoleAssumption DEF LineInv
<1> QED BY <1>4, <1>5

LEMMA LineStep == ASSUME LineInv, [Receiver \/ Console]_vars PROVE LineInv'
<1>1. CASE UNCHANGED <<line, typed>>
  BY <1>1 DEF LineInv
<1>2. CASE line' = <<>> /\ typed' = 0
  BY <1>2, ConsoleAssumption DEF LineInv
<1>3. CASE Boot \/ SaveStep \/ Saved \/ SaveFails \/ UNCHANGED consoleVars
  BY <1>1, <1>3 DEF Boot, SaveStep, Saved, SaveFails, consoleVars
<1>4. CASE Reset \/ EndOfLine \/ EmptyLine
  BY <1>2, <1>4 DEF Reset, EndOfLine, EmptyLine
<1> QED BY <1>3, <1>4, TypeLine DEF Receiver, Console, ConsoleNext, vars

(* A line that fits the buffer is executed whole, whatever came before it. *)
THEOREM FittingLinesWhole == Spec => FittingLineWhole
<1>1. Init => LineInv
  BY ConsoleAssumption DEF Init, ConsoleInit, LineInv
<1>2. LineInv /\ [Receiver \/ Console]_vars => LineInv'
  BY LineStep
<1>3. ASSUME LineInv, [Receiver \/ Console]_vars
      PROVE  [(0 < typed /\ typed < LineMax /\ typed' = 0 /\ up')
                => executed' = typed]_consoleVars
  <2>1. CASE EndOfLine
    BY <1>3, <2>1 DEF EndOfLine, LineInv
  <2>2. CASE EmptyLine
    <3>1. Len(line) = 0
      BY <2>2 DEF EmptyLine
    <3> QED BY <1>3, <3>1 DEF LineInv
  <2>3. CASE Reset
    BY <2>3 DEF Reset
  <2>4. CASE Boot \/ SaveStep \/ Saved \/ SaveFails
    BY <2>4 DEF Boot, SaveStep, Saved, SaveFails
  <2>5. CASE Type
    BY <1>3, <2>5, ConsoleAssumption DEF Type, LineInv
  <2> QED BY <1>3, <2>1, <2>2, <2>3, <2>4, <2>5 DEF Receiver, Console, ConsoleNext, vars
<1> QED BY <1>1, <1>2, <1>3, PTL DEF Spec, FittingLineWhole

-----------------------------------------------------------------------------
(* The receiver.                                                           *)

AgeInv ==
  /\ age \in [{"byte", "sentence", "fix"} -> Empty .. Old]
  /\ OkMeansFix

(* A healthy report is never older than the fix it rests on allows.        *)
THEOREM HealthyHasFix == Spec => []OkMeansFix
<1>1. Init => AgeInv
  BY DEF Init, GpsInit, AgeInv, OkMeansFix, Empty, Old, Late
<1>2. ASSUME AgeInv, NEW r, HandleByte(r) PROVE AgeInv'
  <2>1. age' \in [{"byte", "sentence", "fix"} -> Empty .. Old] /\ age'.fix \in {0, age.fix}
    BY <1>2 DEF AgeInv, HandleByte, Empty, Old, Late
  <2> QED BY <1>2, <2>1 DEF AgeInv, OkMeansFix, HandleByte, Late
<1>3. ASSUME AgeInv, Report PROVE AgeInv'
  <2>1. PICK late \in SUBSET DOMAIN age :
          /\ \A k \in DOMAIN age : age[k] = Empty \/ age[k] >= Late => k \in late
          /\ shown' = Health(late)
    BY <1>3 DEF Report
  <2>2. /\ age \in [{"byte", "sentence", "fix"} -> Empty .. Old]
        /\ age' = [k \in DOMAIN age |->
                    IF age[k] = Empty THEN Empty ELSE IF age[k] < Old THEN age[k] + 1 ELSE Old]
    BY <1>3 DEF AgeInv, Report
  <2>3. age' \in [{"byte", "sentence", "fix"} -> Empty .. Old]
    BY <2>2 DEF Empty, Old, Late
  <2>4. shown' = "OK" => late = {}
    BY <2>1, <2>2 DEF Health
  <2>5. late = {} => age.fix \in 0 .. Late - 1 /\ age'.fix = age.fix + 1
    BY <2>1, <2>2 DEF Empty, Old, Late
  <2> QED BY <2>3, <2>4, <2>5 DEF AgeInv, OkMeansFix, Late
<1>4. AgeInv /\ [Receiver \/ Console]_vars => AgeInv'
  <2>1. CASE UNCHANGED <<age, shown>>
    BY <2>1 DEF AgeInv, OkMeansFix
  <2>2. Speak \/ Lose => UNCHANGED <<age, shown>>
    BY DEF Speak, Lose
  <2>3. UNCHANGED gpsVars => UNCHANGED <<age, shown>>
    BY DEF gpsVars
  <2> QED BY <1>2, <1>3, <2>1, <2>2, <2>3 DEF Receiver, Console, GpsNext, Deliver, Disturb, vars
<1>5. AgeInv => OkMeansFix
  BY DEF AgeInv
<1> QED BY <1>1, <1>4, <1>5, PTL DEF Spec

-----------------------------------------------------------------------------
(* The receiver.                                                           *)

(* What the line carries, and what of it a sentence is made of.            *)
Runs == {Noise} \cup Body \cup {Star({b}) : b \in Body}
Sent == {Dollar, LineEnd} \cup Body \cup {Star({b}) : b \in Body}

(* A sentence with a body in it has the body that was heard last.          *)
LastBody ==
  \A k \in 1 .. Len(parser.sentence) :
    parser.sentence[k] \in Body =>
      heard \in Body /\ \E m \in 1 .. Len(parser.sentence) : parser.sentence[m] = heard

ParserTypes ==
  /\ parser = [open |-> parser.open, sentence |-> parser.sentence, length |-> parser.length]
  /\ parser.open \in BOOLEAN
  /\ parser.sentence \in Seq(Runs)
  /\ parser.length \in Nat /\ parser.length < SentenceMax
  /\ ~parser.open => parser.sentence = <<>> /\ parser.length = 0

(* Up to four runs of a sentence, 0 standing for none, take no more room   *)
(* than it has taken.                                                      *)
Weight(s, i) == IF i = 0 THEN 0 ELSE Size(s[i])
Before(i, j) == i = 0 \/ i < j
Room ==
  \A i, j, k, l \in 0 .. Len(parser.sentence) :
    Before(i, j) /\ Before(j, k) /\ Before(k, l) =>
      Weight(parser.sentence, i) + Weight(parser.sentence, j) + Weight(parser.sentence, k)
        + Weight(parser.sentence, l) <= parser.length

GpsInv ==
  /\ output \in Seq(Sent)
  /\ ParserTypes /\ LastBody /\ Room
  /\ fixed => altMm # 0

LEMMA RunsDiffer ==
  /\ Dollar # LineEnd /\ Dollar \notin Runs /\ LineEnd \notin Runs
  /\ \A r \in Runs : r.run = "body" <=> r \in Body
  /\ \A r \in Sent \cup {Noise} : r.run = "body" <=> r \in Body
  /\ \A r \in Runs : r.run = "star" => \E b \in Body : r.sum = {b}
<1>1. /\ Dollar.run = "dollar" /\ LineEnd.run = "line_end" /\ Noise.run = "noise"
      /\ \A b \in Body : Star({b}).run = "star" /\ Star({b}).sum = {b} /\ b.run = "body"
  BY BodyAssumption DEF Dollar, LineEnd, Noise, Star
<1>2. Dollar # LineEnd BY <1>1
<1>3. \A r \in Runs : r.run \in {"noise", "star", "body"} BY <1>1 DEF Runs
<1>4. \A r \in Runs \cup Sent \cup {Noise} :
         r \in {Dollar, LineEnd, Noise} \cup Body \/ \E b \in Body : r = Star({b})
  BY DEF Runs, Sent
<1>5. \A r \in Runs \cup Sent \cup {Noise} : r.run = "body" <=> r \in Body BY <1>1, <1>4
<1>6. \A r \in Runs : r.run = "star" => \E b \in Body : r.sum = {b}
  <2> TAKE r \in Runs
  <2>1. r \in Body => r.run = "body" BY <1>1
  <2>2. r = Noise => r.run = "noise" BY <1>1
  <2>3. r \in Body \/ r = Noise \/ \E b \in Body : r = Star({b}) BY DEF Runs
  <2>. QED BY <1>1, <2>1, <2>2, <2>3
<1>7. Dollar \notin Runs /\ LineEnd \notin Runs BY <1>1, <1>3
<1>. QED BY <1>2, <1>5, <1>6, <1>7

LEMMA SizeIsNat == ASSUME NEW r \in Runs PROVE Size(r) \in Nat
<1>1. CASE r \in Body
  BY <1>1, BodyAssumption DEF Size
<1>2. CASE r \notin Body
  <2>1. r.run # "body" BY <1>2, RunsDiffer
  <2>. QED BY <2>1 DEF Size
<1>. QED BY <1>1, <1>2

LEMMA ChecksumOne == ASSUME NEW b PROVE Checksum(<<b>>) = {b}
<1>1. ToSet(<<b>>) = {b} BY DEF ToSet
<1>2. {k \in DOMAIN <<b>> : <<b>>[k] = b} = {1} OBVIOUS
<1>3. Cardinality({1}) % 2 = 1 BY FS_Singleton
<1>. QED BY <1>1, <1>2, <1>3 DEF Checksum

(* A run that the checksum does not show is there twice.                   *)
LEMMA EvenMeansTwice ==
  ASSUME NEW S, NEW p \in Seq(S), NEW k \in 1 .. Len(p), p[k] \notin Checksum(p)
  PROVE  \E j \in 1 .. Len(p) : j # k /\ p[j] = p[k]
<1> SUFFICES ASSUME \A j \in 1 .. Len(p) : p[j] = p[k] => j = k PROVE FALSE
  OBVIOUS
<1>1. DOMAIN p = 1 .. Len(p) /\ p[k] \in ToSet(p)
  BY DEF ToSet
<1>2. {j \in DOMAIN p : p[j] = p[k]} = {k}
  BY <1>1
<1>3. Cardinality({k}) = 1
  BY FS_Singleton
<1>4. Cardinality({k}) % 2 = 1
  BY <1>3
<1>. QED BY <1>1, <1>2, <1>4 DEF Checksum

LEMMA GpsStarts == GpsInit => GpsInv
<1> SUFFICES ASSUME GpsInit PROVE GpsInv OBVIOUS
<1>1. /\ output = <<>> /\ parser = [open |-> FALSE, sentence |-> <<>>, length |-> 0]
      /\ fixed = FALSE
  BY DEF GpsInit, ParserInit
<1>2. Len(parser.sentence) = 0 /\ parser.sentence \in Seq(Runs) /\ output \in Seq(Sent)
  BY <1>1
<1>3. ParserTypes BY <1>1, <1>2, NmeaAssumption DEF ParserTypes
<1>4. Room BY <1>1, <1>2 DEF Room, Weight
<1>. QED BY <1>1, <1>2, <1>3, <1>4 DEF GpsInv, LastBody

(* The parser after a byte.                                                *)
LEMMA PushKeeps ==
  ASSUME ParserTypes, LastBody, Room, NEW r \in Sent \cup {Noise}, parser' = Push(parser, r),
         heard' = IF r.run = "body" THEN r ELSE heard
  PROVE  ParserTypes' /\ LastBody' /\ Room'
<1>1. ASSUME NEW o \in BOOLEAN, parser' = [open |-> o, sentence |-> <<>>, length |-> 0]
      PROVE  ParserTypes' /\ LastBody' /\ Room'
  <2>1. /\ parser'.sentence = <<>> /\ parser'.open \in BOOLEAN /\ parser'.length = 0
        /\ parser' = [open |-> parser'.open, sentence |-> parser'.sentence,
                      length |-> parser'.length]
    BY <1>1
  <2>2. Len(parser'.sentence) = 0 /\ parser'.sentence \in Seq(Runs) BY <2>1
  <2>3. Room' BY <2>1, <2>2 DEF Room, Weight
  <2>. QED BY <2>1, <2>2, <2>3, NmeaAssumption DEF LastBody, ParserTypes
<1>2. /\ parser.open \in BOOLEAN
      /\ parser = [open |-> parser.open, sentence |-> parser.sentence,
                   length |-> parser.length]
      /\ ~parser.open => parser.sentence = <<>> /\ parser.length = 0
  BY DEF ParserTypes
<1>3. CASE r = Dollar
  <2>1. parser' = [open |-> TRUE, sentence |-> <<>>, length |-> 0]
    BY <1>3, RunsDiffer DEF Push, ParserInit
  <2>2. TRUE \in BOOLEAN OBVIOUS
  <2>. QED BY <1>1, <2>1, <2>2
<1>4. CASE r # Dollar /\ ~parser.open
  <2>1. parser = [open |-> FALSE, sentence |-> <<>>, length |-> 0]
    BY <1>2, <1>4
  <2>2. parser' = parser BY <1>2, <1>4 DEF Push
  <2>. QED BY <1>1, <2>1, <2>2
<1>5. CASE r = LineEnd /\ parser.open
  BY <1>1, <1>5, RunsDiffer DEF Push, ParserInit
<1>6. CASE r \notin {Dollar, LineEnd} /\ parser.open /\ Overflows(parser, r)
  BY <1>1, <1>6 DEF Push, ParserInit
<1>7. CASE r \notin {Dollar, LineEnd} /\ parser.open /\ ~Overflows(parser, r)
  <2> DEFINE s == parser.sentence
             n == Len(s)
             t == Append(s, r)
  <2>1. parser' = [open |-> TRUE, sentence |-> t, length |-> parser.length + Size(r)]
    <3>1. parser' = [parser EXCEPT !.sentence = Append(@, r), !.length = @ + Size(r)]
      BY <1>7 DEF Push
    <3>. QED BY <3>1, <1>2, <1>7
  <2>2. s \in Seq(Runs) /\ n \in Nat /\ r \in Runs /\ Size(r) \in Nat /\ parser.length \in Nat
    <3>1. r \in Runs BY <1>7 DEF Runs, Sent
    <3>2. s \in Seq(Runs) /\ parser.length \in Nat BY DEF ParserTypes
    <3>. QED BY <3>1, <3>2, SizeIsNat
  <2>3. /\ t \in Seq(Runs) /\ Len(t) = n + 1
        /\ \A k \in 1 .. n : t[k] = s[k]
        /\ t[n + 1] = r
    BY <2>2
  <2>4. parser'.sentence = t /\ parser'.open /\ parser'.length = parser.length + Size(r)
    BY <2>1
  <2> HIDE DEF t, n, s
  <2>5. parser.length + Size(r) < SentenceMax
    BY <1>7, <2>2, NmeaAssumption DEF Overflows
  <2>6. ParserTypes' BY <2>1, <2>2, <2>3, <2>4, <2>5 DEF ParserTypes
  <2>7. LastBody'
    <3>1. r.run = "body" <=> r \in Body BY RunsDiffer
    <3>2. CASE r \in Body BY <2>2, <2>3, <2>4, <3>1, <3>2 DEF LastBody
    <3>3. CASE r \notin Body
      <4>1. heard' = heard BY <3>1, <3>3
      <4>2. SUFFICES ASSUME NEW k \in 1 .. n + 1, t[k] \in Body
                     PROVE  heard \in Body /\ \E m \in 1 .. n + 1 : t[m] = heard
        BY <2>3, <2>4, <4>1 DEF LastBody
      <4>3. k \in 1 .. n /\ s[k] \in Body BY <2>2, <2>3, <3>3, <4>2
      <4>4. PICK m \in 1 .. n : s[m] = heard /\ heard \in Body
        BY <4>3 DEF LastBody, s, n
      <4>5. m \in 1 .. n + 1 BY <2>2
      <4>. QED BY <2>3, <4>4, <4>5
    <3>. QED BY <3>2, <3>3
  <2>8. Room'
    <3>1. \A i \in 0 .. n : Weight(t, i) = Weight(s, i) BY <2>2, <2>3 DEF Weight
    <3>2. \A i \in 0 .. n : Weight(s, i) \in Nat
      <4>1. \A i \in 1 .. n : s[i] \in Runs BY <2>2 DEF n
      <4>. QED BY <4>1, <2>2, SizeIsNat DEF Weight
    <3>3. Weight(t, n + 1) = Size(r) BY <2>2, <2>3 DEF Weight
    <3>4. \A i, j, k, l \in 0 .. n :
            Before(i, j) /\ Before(j, k) /\ Before(k, l) =>
              Weight(s, i) + Weight(s, j) + Weight(s, k) + Weight(s, l) <= parser.length
      BY DEF Room, s, n
    <3>5. SUFFICES ASSUME NEW i \in 0 .. n + 1, NEW j \in 0 .. n + 1, NEW k \in 0 .. n + 1,
                          NEW l \in 0 .. n + 1, Before(i, j), Before(j, k), Before(k, l)
                   PROVE  Weight(t, i) + Weight(t, j) + Weight(t, k) + Weight(t, l)
                            <= parser.length + Size(r)
      BY <2>3, <2>4 DEF Room
    <3>6. k \in 0 .. n /\ j \in 0 .. n /\ i \in 0 .. n
      BY <2>2, <3>5 DEF Before
    <3>7. Weight(s, i) \in Nat /\ Weight(s, j) \in Nat /\ Weight(s, k) \in Nat
          /\ Weight(t, i) = Weight(s, i) /\ Weight(t, j) = Weight(s, j)
          /\ Weight(t, k) = Weight(s, k)
      BY <3>1, <3>2, <3>6
    <3>8. CASE l = n + 1
      <4>1. 0 \in 0 .. n /\ Before(0, i) /\ Weight(s, 0) = 0 BY <2>2 DEF Before, Weight
      <4>2. Weight(s, 0) + Weight(s, i) + Weight(s, j) + Weight(s, k) <= parser.length
        BY <3>4, <3>5, <3>6, <4>1
      <4>. QED BY <2>2, <3>3, <3>7, <3>8, <4>1, <4>2
    <3>9. CASE l \in 0 .. n
      <4>1. Weight(s, i) + Weight(s, j) + Weight(s, k) + Weight(s, l) <= parser.length
        BY <3>4, <3>5, <3>6, <3>9
      <4>2. Weight(s, l) \in Nat /\ Weight(t, l) = Weight(s, l) BY <3>1, <3>2, <3>9
      <4>. QED BY <2>2, <3>7, <4>1, <4>2
    <3>. QED BY <2>2, <3>8, <3>9
  <2>. QED BY <2>6, <2>7, <2>8
<1>. QED BY <1>3, <1>4, <1>5, <1>6, <1>7

(* A sample is read from one body, and a fix from the last that was heard: *)
(* otherwise the sum makes out three bodies, for which a buffer with a fix *)
(* and a star has no room.                                                 *)
LEMMA SampleOfHeard ==
  ASSUME ParserTypes, LastBody, Room, NEW r \in Sent \cup {Noise},
         Result(parser, r).result = "SAMPLE"
  PROVE  /\ r.run # "body"
         /\ \E b \in Body : Result(parser, r) = Said(b) /\ (b = heard \/ b \notin Fixes)
<1> DEFINE s == parser.sentence
           n == Len(s)
           p == SubSeq(s, 1, n - 1)
           stars == {k \in DOMAIN s : s[k].run = "star"}
           b == s[1]
<1>1. r = LineEnd /\ s # <<>> /\ ParseSentence(s).result = "SAMPLE"
      /\ Result(parser, r) = ParseSentence(s)
  <2>1. CASE r = LineEnd /\ parser.open /\ s # <<>> BY <2>1 DEF Result
  <2>2. CASE ~(r = LineEnd /\ parser.open /\ s # <<>>)
    <3>1. Result(parser, r).result \in {"OVERFLOW", "NONE"}
      BY <2>2 DEF Result, NoResult
    <3>. QED BY <3>1
  <2>. QED BY <2>1, <2>2
<1>2. r.run # "body" BY <1>1 DEF LineEnd
<1>3. /\ stars = {n} /\ Checksum(p) = s[n].sum
      /\ ParseSentence(s) = ParsePayload(p)
  BY <1>1 DEF ParseSentence, Malformed
<1>4. p # <<>> /\ p[1].run = "body"
  BY <1>1, <1>3 DEF ParsePayload, Malformed
<1>5. /\ s \in Seq(Runs) /\ n \in Nat /\ n > 0
      /\ \A k \in 1 .. n : s[k] \in Runs
  BY <1>1 DEF ParserTypes
<1>6. /\ p \in Seq(Runs) /\ Len(p) = n - 1
      /\ \A k \in 1 .. n - 1 : p[k] = s[k]
  BY <1>5
<1>7. n > 1
  <2>1. n = 1 => p = <<>> BY <1>6
  <2>. QED BY <1>4, <1>5, <2>1
<1>8. p[1] = b /\ b \in Body
  <2>1. p[1] = b /\ b \in Runs BY <1>5, <1>6, <1>7
  <2>. QED BY <1>4, <2>1, RunsDiffer
<1>9. ParsePayload(p) = Said(b)
  <2>1. <<b>>[1] = b /\ <<b>> # <<>> OBVIOUS
  <2>. QED BY <1>4, <1>8, <2>1 DEF ParsePayload, Said
<1>10. ASSUME b \in Fixes, b # heard PROVE FALSE
  <2>1. s[n].run = "star" /\ s[n] \in Runs /\ s[n] \notin Body
    <3>1. n \in DOMAIN s /\ s[n].run = "star" BY <1>3
    <3>2. s[n] \in Runs BY <1>5
    <3>. QED BY <3>1, <3>2, RunsDiffer
  <2>2. PICK c \in Body : Checksum(p) = {c} BY <1>3, <2>1, RunsDiffer
  <2>3. PICK m \in 1 .. n : s[m] = heard /\ heard \in Body
    <3>1. 1 \in 1 .. n /\ s[1] \in Body BY <1>5, <1>8
    <3>. QED BY <3>1 DEF LastBody
  <2>4. m \in 2 .. n - 1 /\ p[m] = heard
    <3>1. m # n /\ m # 1 BY <1>10, <2>1, <2>3
    <3>2. m \in 2 .. n - 1 BY <1>5, <3>1
    <3>. QED BY <1>5, <1>6, <2>3, <3>2
  <2> HIDE DEF p, b
  <2>5. \E k \in 2 .. n - 1 : k # m /\ p[k] \in Body
    <3>1. CASE c # b /\ c # heard
      <4>1. c \in ToSet(p) BY <2>2 DEF Checksum
      <4>2. PICK k \in 1 .. n - 1 : p[k] = c BY <4>1, <1>6 DEF ToSet
      <4>3. k # 1 /\ k # m BY <1>8, <2>4, <3>1, <4>2
      <4>4. k \in 2 .. n - 1 BY <1>5, <4>3
      <4>. QED BY <4>2, <4>3, <4>4
    <3>2. CASE c = b
      <4>1. p[m] \notin Checksum(p) /\ m \in 1 .. Len(p) BY <1>6, <1>10, <2>2, <2>4, <3>2
      <4>2. PICK k \in 1 .. Len(p) : k # m /\ p[k] = p[m] BY <1>6, <4>1, EvenMeansTwice
      <4>3. k # 1 BY <1>8, <1>10, <2>4, <4>2
      <4>4. k \in 2 .. n - 1 BY <1>5, <1>6, <4>2, <4>3
      <4>. QED BY <2>3, <2>4, <4>2, <4>4
    <3>3. CASE c = heard
      <4>1. p[1] \notin Checksum(p) /\ 1 \in 1 .. Len(p) BY <1>5, <1>6, <1>7, <1>8, <1>10, <2>2, <3>3
      <4>2. PICK k \in 1 .. Len(p) : k # 1 /\ p[k] = p[1] BY <1>6, <4>1, EvenMeansTwice
      <4>3. k # m BY <1>8, <1>10, <2>4, <4>2
      <4>4. k \in 2 .. n - 1 BY <1>5, <1>6, <4>2
      <4>. QED BY <1>8, <4>2, <4>3, <4>4
    <3>. QED BY <3>1, <3>2, <3>3
  <2>6. PICK k \in 2 .. n - 1 : k # m /\ s[k] \in Body BY <1>5, <1>6, <2>5
  <2>7. ASSUME NEW i \in 2 .. n - 1, NEW j \in 2 .. n - 1, i < j, s[i] \in Body, s[j] \in Body
        PROVE  FALSE
    <3>1. /\ 1 \in 0 .. n /\ i \in 0 .. n /\ j \in 0 .. n /\ n \in 0 .. n
          /\ Before(1, i) /\ Before(i, j) /\ Before(j, n)
      BY <1>5, <2>7 DEF Before
    <3>2. Weight(s, 1) + Weight(s, i) + Weight(s, j) + Weight(s, n) <= parser.length
      BY <3>1 DEF Room
    <3>3. /\ Weight(s, 1) = b.size /\ Weight(s, i) = s[i].size /\ Weight(s, j) = s[j].size
          /\ Weight(s, n) = 1
      <4>1. s[1] = b /\ b.run = "body" /\ s[i].run = "body" /\ s[j].run = "body"
        BY <1>8, <2>7, BodyAssumption DEF b
      <4>. QED BY <1>5, <2>1, <2>7, <4>1 DEF Weight, Size
    <3>4. b.size + s[i].size + s[j].size + 1 >= SentenceMax
      BY <1>10, <2>7, BodyAssumption
    <3>5. b.size \in Nat /\ s[i].size \in Nat /\ s[j].size \in Nat
      BY <1>8, <2>7, BodyAssumption
    <3>6. parser.length \in Nat /\ parser.length < SentenceMax BY DEF ParserTypes
    <3>7. b.size + s[i].size + s[j].size + 1 <= parser.length BY <3>2, <3>3
    <3> HIDE DEF s
    <3>. QED BY <3>4, <3>5, <3>6, <3>7, NmeaAssumption
  <2>8. s[m] \in Body BY <2>3
  <2> HIDE DEF s, n
  <2>9. k < m \/ m < k BY <1>5, <2>4, <2>6
  <2>. QED BY <2>4, <2>6, <2>7, <2>8, <2>9
<1> HIDE DEF b, p, s, n, stars
<1>. QED BY <1>1, <1>2, <1>3, <1>8, <1>9, <1>10

LEMMA ReceivedByte ==
  ASSUME GpsInv, output # <<>>, output' = Tail(output),
         NEW r \in Sent \cup {Noise}, HandleByte(r)
  PROVE  GpsInv' /\ SampleIsHeard' /\ AltitudeKept'
<1> DEFINE result == Result(parser, r)
           s == Preserved(result)
<1>1. ParserTypes' /\ LastBody' /\ Room'
  BY PushKeeps DEF GpsInv, HandleByte
<1>2. output' \in Seq(Sent) BY DEF GpsInv
<1>3. CASE result.result = "SAMPLE"
  <2>1. heard' = heard
    BY <1>3, SampleOfHeard DEF GpsInv, HandleByte
  <2>2. PICK b \in Body : result = Said(b) /\ (b = heard \/ b \notin Fixes)
    BY <1>3, SampleOfHeard DEF GpsInv
  <2>3. /\ altMm' = s.alt /\ injected' = s
        /\ fixed' = (s.valid /\ (s.alt # 0 \/ (fixed /\ heard.head = "RMC")))
    BY <1>3 DEF HandleByte
  <2> HIDE DEF result
  <2>4. \/ result = ParseGga(b) \/ (b.head = "RMC" /\ result = ParseRmc(b))
    <3>1. <<b>>[1] = b /\ <<b>> # <<>> OBVIOUS
    <3>. QED BY <1>3, <2>2, <3>1 DEF Said, ParsePayload, Malformed
  <2>5. PICK valid, satellites, hdop, alt : result = Sample(valid, satellites, hdop, alt)
    <3> DEFINE Is(x) == \E v, sats, hdop, alt : x = Sample(v, sats, hdop, alt)
    <3>1. CASE result = ParseGga(b)
      <4>1. result = Malformed \/ Is(result) BY <3>1 DEF ParseGga
      <4>. QED BY <1>3, <4>1 DEF Malformed
    <3>2. CASE result = ParseRmc(b)
      <4>1. result = Malformed \/ Is(result) BY <3>2 DEF ParseRmc
      <4>. QED BY <1>3, <4>1 DEF Malformed
    <3>. QED BY <2>4, <3>1, <3>2
  <2>6. \/ s = result
        \/ s = [result EXCEPT !.alt = altMm]
    BY DEF Preserved
  <2>7. /\ s = [result EXCEPT !.alt = s.alt] /\ [s EXCEPT !.alt = result.alt] = result
        /\ s.valid = result.valid
    BY <2>5, <2>6 DEF Sample
  <2>8. SampleIsHeard' BY <1>3, <2>1, <2>2, <2>3, <2>7 DEF SampleIsHeard
  <2>9. fixed' => s.alt # 0
    <3>1. SUFFICES ASSUME fixed, heard.head = "RMC", s.valid PROVE s.alt # 0
      BY <2>3
    <3>2. b = heard BY <1>3, <2>2, <2>7, <3>1 DEF Fixes
    <3>3. result = Sample(heard.status = "A", 0, 0, 0)
      <4>1. result = ParseRmc(heard)
        <5>1. <<b>>[1] = b /\ <<b>> # <<>> OBVIOUS
        <5>. QED BY <1>3, <2>2, <3>1, <3>2, <5>1 DEF Said, ParsePayload, Malformed
      <4>2. result = Malformed \/ result = Sample(heard.status = "A", 0, 0, 0)
        BY <4>1 DEF ParseRmc
      <4>. QED BY <1>3, <4>2 DEF Malformed
    <3>4. altMm # 0 BY <3>1 DEF GpsInv
    <3>. QED BY <3>1, <3>3, <3>4, <2>6 DEF Preserved, Sample
  <2>. QED BY <1>1, <1>2, <2>3, <2>8, <2>9 DEF GpsInv, AltitudeKept
<1>4. CASE result.result # "SAMPLE"
  <2>1. injected' = NoSample /\ altMm' = altMm /\ fixed' = fixed
    BY <1>4 DEF HandleByte
  <2>. QED BY <1>1, <1>2, <2>1 DEF GpsInv, SampleIsHeard, AltitudeKept
<1>. QED BY <1>3, <1>4

LEMMA SentElements ==
  ASSUME NEW s \in Seq(Sent), s # <<>> PROVE Head(s) \in Sent /\ Tail(s) \in Seq(Sent)
OBVIOUS

LEMMA ReceiverStep ==
  ASSUME GpsInv, SampleIsHeard, AltitudeKept, [Receiver \/ Console]_vars
  PROVE  GpsInv' /\ SampleIsHeard' /\ AltitudeKept'
<1>1. CASE UNCHANGED gpsVars
  BY <1>1 DEF gpsVars, GpsInv, ParserTypes, LastBody, Room, SampleIsHeard, AltitudeKept
<1>2. CASE Speak
  <2>1. PICK b \in Body : output' = <<Dollar, b, Star(Checksum(<<b>>)), LineEnd>>
    BY <1>2 DEF Speak
  <2>2. output' = <<Dollar, b, Star({b}), LineEnd>> BY <2>1, ChecksumOne
  <2>3. output' \in Seq(Sent)
    <3>1. Dollar \in Sent /\ b \in Sent /\ Star({b}) \in Sent /\ LineEnd \in Sent
      BY DEF Sent
    <3>. QED BY <2>2, <3>1
  <2>4. UNCHANGED <<heard, parser, altMm, fixed>> /\ injected' = NoSample BY <1>2 DEF Speak
  <2>. QED BY <2>3, <2>4 DEF GpsInv, ParserTypes, LastBody, Room, SampleIsHeard, AltitudeKept
<1>3. CASE Deliver
  BY <1>3, ReceivedByte, SentElements DEF Deliver, GpsInv
<1>4. CASE Disturb
  BY <1>4, ReceivedByte DEF Disturb
<1>5. CASE Lose
  <2>1. output' \in Seq(Sent) BY <1>5, SentElements DEF Lose, GpsInv
  <2>2. UNCHANGED <<heard, parser, altMm, fixed>> /\ injected' = NoSample BY <1>5 DEF Lose
  <2>. QED BY <2>1, <2>2 DEF GpsInv, ParserTypes, LastBody, Room, SampleIsHeard, AltitudeKept
<1>6. CASE Report
  <2>1. UNCHANGED <<output, heard, parser, altMm, fixed>> /\ injected' = NoSample
    BY <1>6 DEF Report
  <2>. QED BY <2>1 DEF GpsInv, ParserTypes, LastBody, Room, SampleIsHeard, AltitudeKept
<1>. QED BY <1>1, <1>2, <1>3, <1>4, <1>5, <1>6 DEF Receiver, Console, GpsNext, vars

ReceiverInv == GpsInv /\ SampleIsHeard /\ AltitudeKept

(* Whatever the buffer holds, what the receiver tells the core is what was *)
(* said.                                                                   *)
THEOREM ReceiverInductive == Spec => []ReceiverInv
<1>1. Init => ReceiverInv
  <2>1. GpsInit => SampleIsHeard /\ AltitudeKept
    BY DEF GpsInit, SampleIsHeard, AltitudeKept
  <2>. QED BY <2>1, GpsStarts DEF Init, ReceiverInv
<1>2. ReceiverInv /\ [Receiver \/ Console]_vars => ReceiverInv'
  BY ReceiverStep DEF ReceiverInv
<1>. QED BY <1>1, <1>2, PTL DEF Spec

(* However bytes are lost, added or run together, a sample is one whole    *)
(* sentence, and a fix is the last sentence whose body came through.       *)
THEOREM SamplesAreHeard == Spec => []SampleIsHeard
BY ReceiverInductive, PTL DEF ReceiverInv

(* An RMC fix keeps the altitude of the fix before it.                     *)
THEOREM AltitudesKept == Spec => []AltitudeKept
BY ReceiverInductive, PTL DEF ReceiverInv
=============================================================================
