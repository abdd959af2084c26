----------------------------- MODULE NodeConsole -----------------------------
(***************************************************************************)
(* The console of an ESP32 node and its configuration: ReaderTask and      *)
(* applyCommand (src/src/ControlChannel.cpp) with the command parser       *)
(* (core/src/nav_serial_json.c), and the store they save to                *)
(* (src/src/NodeConfig.cpp), through resets at any moment.                 *)
(*                                                                         *)
(* Data abstraction: characters come in chunks, each the text of a command *)
(* object, and LineMax counts chunks.  Of a name only whether it is the    *)
(* one that goes with an id; the flags and the altitude are one flag, gps. *)
(* The core and its mutex are ControlChannel's; no other task changes the  *)
(* configuration.                                                          *)
(***************************************************************************)
EXTENDS Integers, Sequences, SequencesExt

CONSTANTS
  NodeCount,    \* NAV_MAX_NODES
  LineMax,      \* sizeof line, in chunks
  Chunk         \* the commands that may be typed

ASSUME ConsoleAssumption == NodeCount \in Nat \ {0} /\ LineMax \in Nat /\ LineMax > 1

DefaultId == 0
Custom == [of |-> -1]
NameOf(id) == [of |-> id]

Defaults == [name |-> NameOf(DefaultId), node_id |-> DefaultId, gps |-> TRUE]

(* Mutated form: the number is not among them.                             *)
Keys_NoNumber == <<"name", "gps">>

(* The keys in the order in which they are written.                        *)
Keys == <<"name", "node_id", "gps">>
Absent == [absent |-> TRUE]

VARIABLES
  up,         \* app_main has been through NodeConfigStore::load
  config,     \* gConfig
  nvs,        \* what the flash holds for each key
  space,      \* whether the namespace exists in it
  todo,       \* the keys that save has yet to write, or the commit
  line,       \* the buffer of ReaderTask
  typed,      \* history: the chunks since the last end of line, at most LineMax
  executed,   \* the length of the line the last step executed, or 0
  dirty,      \* history: the running configuration has not been saved
  torn        \* history: since the identity was last given, a save was cut
              \* short or a key of the identity was not read

consoleVars == <<up, config, nvs, space, todo, line, typed, executed, dirty, torn>>

Idle == <<>>
Commit == "commit"

-----------------------------------------------------------------------------
(* NodeConfigStore::load from a namespace.  A number is taken as it is.    *)
Loaded(flash) ==
  [k \in DOMAIN Defaults |-> IF flash[k] = Absent THEN Defaults[k] ELSE flash[k].value]

(* A key that cannot be read has its default, whatever the reason.         *)
LoadedWithout(unread) ==
  [k \in DOMAIN Defaults |-> IF k \in unread THEN Defaults[k] ELSE Loaded(nvs)[k]]

Blank == [k \in DOMAIN Defaults |-> Absent]

ConsoleInit ==
  /\ up = FALSE
  /\ config = Defaults
  /\ nvs = Blank
  /\ space = FALSE
  /\ todo = Idle
  /\ line = <<>>
  /\ typed = 0
  /\ executed = 0
  /\ dirty = FALSE
  /\ torn = FALSE

(* save starts on the keys.                                                *)
Saving == Append(Keys, Commit)

(* load: the namespace opens, and each key is read or not; it does not     *)
(* open, for want of one or for any other reason, or nvs_flash_init failed *)
(* and the flash was erased, and the defaults are saved; nvs_flash_init    *)
(* fails for good and the defaults are used without being saved.           *)
Boot ==
  /\ ~up
  /\ up' = TRUE
  /\ \/ /\ space
        /\ \E unread \in SUBSET DOMAIN Defaults :
             /\ config' = LoadedWithout(unread)
             /\ torn' = (torn \/ unread \cap {"name", "node_id"} # {})
        /\ dirty' = (config' # Loaded(nvs))
        /\ todo' = Idle
        /\ UNCHANGED <<nvs, space>>
     \/ /\ config' = Defaults
        /\ todo' = Saving
        /\ dirty' = TRUE
        /\ torn' = FALSE
        /\ \/ UNCHANGED <<nvs, space>>
           \/ nvs' = Blank /\ space' = FALSE
     \/ /\ config' = Defaults
        /\ todo' = Idle
        /\ dirty' = TRUE
        /\ UNCHANGED <<nvs, space, torn>>
  /\ executed' = 0
  /\ UNCHANGED <<line, typed>>

-----------------------------------------------------------------------------
(* What nvs_set has been given and not committed may be in the flash after *)
(* a reset or not.                                                         *)
Given == {Keys[k] : k \in {j \in DOMAIN Keys : ~Contains(todo, Keys[j])}}

Uncommitted(kept) ==
  [k \in DOMAIN Defaults |-> IF k \in kept THEN [value |-> config[k]] ELSE nvs[k]]

SaveStep ==
  /\ todo # Idle /\ Head(todo) # Commit
  /\ todo' = Tail(todo)
  /\ space' = TRUE
  /\ executed' = 0
  /\ UNCHANGED <<up, config, nvs, line, typed, dirty, torn>>

Saved ==
  /\ todo # Idle /\ Head(todo) = Commit
  /\ nvs' = Uncommitted(Given)
  /\ todo' = Idle
  /\ dirty' = FALSE
  /\ executed' = 0
  /\ UNCHANGED <<up, config, space, line, typed, torn>>

(* nvs_open, a write or the commit fails: the rest is not written, and the *)
(* running configuration stays as it is.                                   *)
SaveFails ==
  /\ todo # Idle
  /\ \E kept \in SUBSET Given : nvs' = Uncommitted(kept)
  /\ todo' = Idle
  /\ dirty' = TRUE
  /\ torn' = TRUE
  /\ executed' = 0
  /\ UNCHANGED <<up, config, space, line, typed>>

Reset ==
  /\ up
  /\ up' = FALSE
  /\ \E kept \in SUBSET (IF todo = Idle THEN {} ELSE Given) : nvs' = Uncommitted(kept)
  /\ torn' = (torn \/ todo # Idle)
  /\ dirty' = FALSE
  /\ config' = Defaults
  /\ todo' = Idle
  /\ line' = <<>>
  /\ typed' = 0
  /\ executed' = 0
  /\ UNCHANGED space

-----------------------------------------------------------------------------
Listening == up /\ todo = Idle

(* Mutated form: the end of the buffer is taken to be one earlier.         *)
Buffered_OneLess(c) == IF Len(line) + 2 < LineMax THEN Append(line, c) ELSE <<>>

(* A character more than fits empties the buffer.                          *)
Buffered(c) == IF Len(line) + 1 < LineMax THEN Append(line, c) ELSE <<>>

Type ==
  /\ Listening
  /\ \E c \in Chunk : line' = Buffered(c)
  /\ typed' = IF typed < LineMax THEN typed + 1 ELSE LineMax
  /\ executed' = 0
  /\ UNCHANGED <<up, config, nvs, space, todo, dirty, torn>>

(* nav_serial_parse_command: the keys are searched from the start, so the  *)
(* first command object on the line gives the command and its value; an id *)
(* out of range makes no command.                                          *)
Command(text) ==
  LET c == text[1]
  IN  IF c.cmd = "node_id" /\ c.value \notin 0 .. NodeCount - 1 THEN [cmd |-> "none"] ELSE c

(* Mutated form: the name stays when the identity changes.                 *)
Applied_KeepsName(c) ==
  CASE c.cmd = "name"    -> [config EXCEPT !.name = Custom]
    [] c.cmd = "gps"     -> [config EXCEPT !.gps = c.value]
    [] c.cmd = "node_id" -> [config EXCEPT !.node_id = c.value]
    [] OTHER             -> config

(* applyCommand on the configuration; the core is ControlChannel's.        *)
Applied(c) ==
  CASE c.cmd = "name"    -> [config EXCEPT !.name = Custom]
    [] c.cmd = "gps"     -> [config EXCEPT !.gps = c.value]
    [] c.cmd = "node_id" -> [config EXCEPT !.name = NameOf(c.value), !.node_id = c.value]
    [] OTHER             -> config

EndOfLine ==
  /\ Listening /\ line # <<>>
  /\ LET c == Command(line)
     IN  /\ config' = Applied(c)
         /\ todo' = IF c.cmd \in {"name", "gps", "node_id"} THEN Saving ELSE Idle
         /\ torn' = (torn /\ c.cmd # "node_id")
         /\ dirty' = (dirty \/ c.cmd \in {"name", "gps", "node_id"})
  /\ executed' = Len(line)
  /\ line' = <<>>
  /\ typed' = 0
  /\ UNCHANGED <<up, nvs, space>>

EmptyLine ==
  /\ Listening /\ line = <<>>
  /\ typed' = 0
  /\ executed' = 0
  /\ UNCHANGED <<up, config, nvs, space, todo, line, dirty, torn>>

ConsoleNext ==
  Boot \/ SaveStep \/ Saved \/ SaveFails \/ Reset \/ Type \/ EndOfLine \/ EmptyLine

-----------------------------------------------------------------------------
(* A restart brings back the running configuration, once it was saved      *)
(* (NodeConfigStore::save and load), whatever happened to earlier saves,   *)
(* if it can read the keys.                                                *)
RestartKeepsConfig ==
  up /\ todo = Idle /\ ~dirty => space /\ Loaded(nvs) = config

(* The node's number is one of a node, although load does not test it, and *)
(* its name is not another node's, unless a save was cut between the keys, *)
(* or one of the two was not read, since the identity was last given.      *)
IdentitySound ==
  /\ config.node_id \in 0 .. NodeCount - 1
  /\ config.name \in {Custom, NameOf(config.node_id)} \/ torn

(* A line that fits the buffer is executed whole at its end, whatever      *)
(* overlong lines came before it (ReaderTask).                             *)
FittingLineWhole ==
  [][(0 < typed /\ typed < LineMax /\ typed' = 0 /\ up') => executed' = typed]_consoleVars

(* What ReaderTask says of itself, ControlChannel.cpp:267: "overflow: drop *)
(* the malformed line".  No part of a line that does not fit is executed.  *)
OverlongLineDropped == [][executed' > 0 => typed < LineMax]_consoleVars
=============================================================================
