---------------------------- MODULE PluginProofs ----------------------------
(***************************************************************************)
(* Theorems about what the plugin does to the console and to POPS.         *)
(*                                                                         *)
(* The life cycle, the gate and the latches, for every signature and every *)
(* interleaving of main_thread, special_button_thread and cleanup_module:  *)
(* TrampolineIsOriginal, GateMatchesWhileLoaded, NothingLeftBehind and     *)
(* LatchesTell.  The two words of the gate are followed by the special     *)
(* thread's pc: amid a patch they tell what has been written of it, and    *)
(* main_thread, which patches whole, either leaves them as they are or     *)
(* marks the gate as overtaken.  The cleanup is followed by what its steps *)
(* have undone.                                                            *)
(*                                                                         *)
(* The aim, for all readings, displays and hold times: GunSeenRight.  The  *)
(* ages of the dark agree while a lit reading counts, and a flash that has *)
(* seen no light has been as long in the dark.                             *)
(*                                                                         *)
(* The overlay, for any number of frames and displays: NoTrail and         *)
(* FlashAccounted.  Records are those of different frames, so that there   *)
(* is one left for each, and what is painted on a frame is what its record *)
(* tells.  CrosshairTrue, for all displays, readings and aims: what is     *)
(* lost in each division on the way from the aim to the crosshair.         *)
(***************************************************************************)
EXTENDS ModuleLifecycle, PopsAim, PopsOverlay, FiniteSetTheorems, TLAPS

CodeWords == {"lui", "addiu", "jr", "li", "j", "nop"}
Places ==
  {"delay", "search", "match", "give up", "save", "install", "reset mode",
   "reset virtual", "reset pulse", "installed", "update", "edge",
   "remember", "patch", "word0", "word1", "mark", "spend", "unword0", "unword1",
   "forget"}

GateTypeOK ==
  /\ virtual_input \in BOOLEAN
  /\ code \in [1..2 -> CodeWords]
  /\ state \in {NotTried, Installed, GaveUp}
  /\ gate \in [mode : Modes, virtual : BOOLEAN, pulse : Int]
  /\ pc \in Places
  /\ active \in BOOLEAN
  /\ to \in Modes
  /\ overtaken \in BOOLEAN

\* What is saved to be restored: words that were verified, and that nothing has
\* written since, for the gate is not installed yet.
Saved ==
  /\ (state = Installed \/ pc \in {"install", "unword0", "unword1", "forget"})
       => trampoline = Words(Original)
  /\ pc = "save" => code = Words(Original)
  /\ pc \in {"search", "match", "give up", "save", "install"} => state = NotTried

\* special_button_thread patches and removes only a gate that is installed.
PatchesInstalled ==
  pc \in {"reset mode", "reset virtual", "reset pulse", "edge", "remember", "patch",
          "word0", "word1", "mark", "spend", "unword0", "unword1", "forget"}
    => state = Installed

\* What the two words are, by where special_button_thread is.
Matched ==
  ~overtaken =>
    /\ state # Installed => code = Words(Original) /\ gate.mode = Original
    /\ pc = "word1" => code[1] = Words(to)[1]
    /\ pc = "mark" => code = Words(to)
    /\ pc = "unword1" => code[1] = Words(Original)[1]
    /\ pc = "forget" => code = Words(Original)
    /\ pc \in {"delay", "spend", "installed", "unword0"} => code = Words(gate.mode)
    /\ pc \in {"update", "edge", "remember", "patch", "reset virtual", "reset pulse"}
         /\ gate.mode # Original => code = Words(gate.mode)

GateInv == PatchesInstalled /\ Matched

-----------------------------------------------------------------------------
(* The gate.                                                               *)

LEMMA WordsType ==
  /\ \A mode \in Modes :
       /\ Words(mode) \in [1..2 -> CodeWords]
       /\ Words(mode)[1] = IF mode = Original THEN "lui" ELSE IF mode = Fast THEN "jr" ELSE "j"
       /\ Words(mode)[2] = IF mode = Original THEN "addiu" ELSE IF mode = Fast THEN "li" ELSE "nop"
  /\ Original \in Modes /\ Fast \in Modes /\ Slot2 \in Modes
  /\ Original # Fast /\ Original # Slot2 /\ Fast # Slot2
BY DEF Words, Modes, Original, Fast, Slot2, CodeWords

LEMMA StatesDiffer == NotTried # Installed /\ GaveUp # Installed
BY DEF NotTried, Installed, GaveUp

\* Two words are known when each is.
LEMMA TwoWords ==
  ASSUME NEW c \in [1..2 -> CodeWords], NEW d \in [1..2 -> CodeWords],
         c[1] = d[1], c[2] = d[2]
  PROVE  c = d
OBVIOUS

LEMMA UpdatedIs ==
  ASSUME NEW g \in [mode : Modes, virtual : BOOLEAN, pulse : Int], NEW now \in BOOLEAN,
         NEW u, u = Updated(g, now)
  PROVE  /\ u \in [mode : Modes, virtual : BOOLEAN, pulse : Int]
         /\ u.mode \in {Fast, Slot2}
<1>1. PulseOf(g, now) \in Int
  BY DEF PulseOf, Pulse
<1>2. \A pulse \in Int : ModeFor(pulse) \in {Fast, Slot2} /\ Spent(pulse) \in Int
  BY DEF ModeFor, Spent, Pulse
<1> QED
  BY <1>1, <1>2, WordsType DEF Updated

\* main_thread patches the gate, as a whole.
LEMMA UpdateByMainKeeps ==
  ASSUME GateTypeOK, virtual_input' \in BOOLEAN, UpdateByMain,
         UNCHANGED <<trampoline, state, locals>>
  PROVE  /\ GateTypeOK'
         /\ Saved => Saved'
         /\ GateInv => GateInv'
<1>0. UNCHANGED <<pc, active, to>>
  BY DEF locals
<1>1. CASE state = Installed
  <2>1. PICK new : new = Updated(gate, virtual_input')
    OBVIOUS
  <2>2. /\ new \in [mode : Modes, virtual : BOOLEAN, pulse : Int]
        /\ new.mode \in {Fast, Slot2}
    BY <2>1, UpdatedIs DEF GateTypeOK
  <2>3. /\ gate' = new
        /\ code' = IF new.mode = gate.mode THEN code ELSE Words(new.mode)
        /\ overtaken' = (overtaken \/
             /\ code' # code
             /\ pc \in {"word1", "mark", "unword1", "forget"})
    BY <1>1, <2>1 DEF UpdateByMain
  <2>4. GateTypeOK'
    BY <1>0, <2>2, <2>3, WordsType DEF GateTypeOK
  <2>5. GateInv => GateInv'
    BY <1>0, <1>1, <2>2, <2>3, WordsType DEF GateInv, PatchesInstalled, Matched, GateTypeOK
  <2> QED
    BY <1>0, <1>1, <2>4, <2>5, StatesDiffer DEF Saved
<1>2. CASE state # Installed
  BY <1>0, <1>2 DEF UpdateByMain, GateTypeOK, Saved, GateInv, PatchesInstalled, Matched
<1> QED
  BY <1>1, <1>2

LEMMA HandleJoyeventKeeps ==
  ASSUME GateTypeOK, handle_joyevent
  PROVE  /\ GateTypeOK'
         /\ Saved => Saved'
         /\ GateInv => GateInv'
<1>1. /\ virtual_input' \in BOOLEAN
      /\ UpdateByMain
      /\ UNCHANGED <<trampoline, state, locals>>
  BY DEF handle_joyevent, Player2Status, ButtonEvent, GateTypeOK
<1> QED
  BY <1>1, UpdateByMainKeeps

\* A step of special_button_thread.
LEMMA SpecialKeeps ==
  ASSUME GateTypeOK, Saved, special_button_thread
  PROVE  /\ GateTypeOK'
         /\ Saved'
         /\ GateInv => GateInv'
<1> USE DEF At, Goto
<1>1. CASE Poll
  <2>1. pc = "delay" /\ UNCHANGED <<virtual_input, code, gate, active, to, overtaken>>
    BY <1>1 DEF Poll, inputs
  <2>2. CASE PollInstalls
    <3>1. /\ state = NotTried /\ UNCHANGED trampoline
          /\ \/ pc' = "search" /\ state' = state
             \/ pc' = "update" /\ state' = NotTried
      BY <1>1, <2>2 DEF Poll, PollInstalls, WithoutPops
    <3> QED
      BY <2>1, <3>1
      DEF GateTypeOK, Saved, GateInv, PatchesInstalled, Matched, Places, NotTried, Installed
  <2>3. CASE PollRemoves
    <3>1. state = Installed /\ pc' = "unword0" /\ UNCHANGED <<trampoline, state>>
      BY <1>1, <2>3 DEF Poll, PollRemoves
    <3> QED
      BY <2>1, <3>1 DEF GateTypeOK, Saved, GateInv, PatchesInstalled, Matched, Places
  <2>4. CASE PollUpdates
    <3>1. pc' = "update" /\ UNCHANGED <<trampoline, state>>
      BY <1>1, <2>4 DEF Poll, PollUpdates
    <3> QED
      BY <2>1, <3>1 DEF GateTypeOK, Saved, GateInv, PatchesInstalled, Matched, Places
  <2> QED
    BY <1>1, <2>2, <2>3, <2>4 DEF Poll
<1>2. CASE TryInstall
  <2>1. UNCHANGED <<virtual_input, code, gate, active, to, overtaken>>
    BY <1>2 DEF TryInstall, inputs
  <2>2. CASE /\ pc = "search" /\ pc' \in {"match", "give up"}
             /\ UNCHANGED <<trampoline, state>>
    BY <2>1, <2>2
    DEF GateTypeOK, Saved, GateInv, PatchesInstalled, Matched, Places, NotTried, Installed
  <2>3. CASE /\ pc = "match"
             /\ \/ pc' = "save" /\ code = Words(Original)
                \/ pc' = "give up"
             /\ UNCHANGED <<trampoline, state>>
    <3>1. state = NotTried
      BY <2>3 DEF Saved
    <3>2. GateTypeOK'
      BY <2>1, <2>3 DEF GateTypeOK, Places
    <3>3. Saved'
      BY <2>1, <2>3, <3>1, StatesDiffer DEF Saved
    <3>4. GateInv => GateInv'
      BY <2>1, <2>3, <3>1, StatesDiffer DEF GateInv, PatchesInstalled, Matched
    <3> QED
      BY <3>2, <3>3, <3>4
  <2>4. CASE pc = "give up" /\ pc' = "update" /\ state' = GaveUp /\ UNCHANGED trampoline
    <3>1. state = NotTried
      BY <2>4 DEF Saved
    <3>2. GateTypeOK'
      BY <2>1, <2>4 DEF GateTypeOK, Places
    <3>3. Saved'
      BY <2>1, <2>4, StatesDiffer DEF Saved
    <3>4. GateInv => GateInv'
      BY <2>1, <2>4, <3>1, StatesDiffer DEF GateInv, PatchesInstalled, Matched
    <3> QED
      BY <3>2, <3>3, <3>4
  <2>5. CASE pc = "save" /\ pc' = "install" /\ trampoline' = code /\ UNCHANGED state
    BY <2>1, <2>5
    DEF GateTypeOK, Saved, GateInv, PatchesInstalled, Matched, Places, NotTried, Installed
  <2> QED
    BY <1>2, <2>2, <2>3, <2>4, <2>5 DEF TryInstall, IsOwnCode
<1>3. CASE Install
  <2>1. UNCHANGED <<virtual_input, code, trampoline, active, to, overtaken>>
    BY <1>3 DEF Install, inputs
  <2>2. CASE pc = "install" /\ pc' = "reset mode" /\ state' = Installed /\ UNCHANGED gate
    BY <2>1, <2>2
    DEF GateTypeOK, Saved, GateInv, PatchesInstalled, Matched, Places
  <2>3. ASSUME gate' \in [mode : Modes, virtual : BOOLEAN, pulse : Int],
               \/ pc = "reset mode" /\ pc' = "reset virtual" /\ gate'.mode = Original
               \/ pc = "reset virtual" /\ pc' = "reset pulse" /\ gate'.mode = gate.mode
               \/ pc = "reset pulse" /\ pc' = "update" /\ gate'.mode = gate.mode
               \/ pc = "installed" /\ pc' = "update" /\ gate'.mode = gate.mode,
               state' = state
        PROVE  /\ GateTypeOK' /\ Saved' /\ (GateInv => GateInv')
    BY <2>1, <2>3
    DEF GateTypeOK, Saved, GateInv, PatchesInstalled, Matched, Places
  <2>4. CASE pc = "reset mode" /\ pc' = "reset virtual" /\ state' = state
             /\ gate' = [gate EXCEPT !.mode = Original]
    <3>1. gate' \in [mode : Modes, virtual : BOOLEAN, pulse : Int]
      BY <2>4, WordsType DEF GateTypeOK
    <3>2. gate'.mode = Original
      BY <2>4 DEF GateTypeOK
    <3> QED
      BY <2>3, <2>4, <3>1, <3>2
  <2>5. CASE pc = "reset virtual" /\ pc' = "reset pulse" /\ state' = state
             /\ gate' = [gate EXCEPT !.virtual = FALSE]
    <3>1. gate' \in [mode : Modes, virtual : BOOLEAN, pulse : Int]
      BY <2>5, WordsType DEF GateTypeOK
    <3>2. gate'.mode = gate.mode
      BY <2>5 DEF GateTypeOK
    <3> QED
      BY <2>3, <2>5, <3>1, <3>2
  <2>6. CASE pc = "reset pulse" /\ pc' = "update" /\ state' = state
             /\ gate' = [gate EXCEPT !.pulse = 0]
    <3>1. gate' \in [mode : Modes, virtual : BOOLEAN, pulse : Int]
      <4>1. PICK zero \in Int : zero = 0
        OBVIOUS
      <4>2. gate' = [gate EXCEPT !.pulse = zero]
        BY <2>6, <4>1
      <4> QED
        BY <4>2 DEF GateTypeOK
    <3>2. gate'.mode = gate.mode
      BY <2>6 DEF GateTypeOK
    <3> QED
      BY <2>3, <2>6, <3>1, <3>2
  <2>7. CASE pc = "installed" /\ pc' = "update" /\ UNCHANGED <<state, gate>>
    <3>1. gate' \in [mode : Modes, virtual : BOOLEAN, pulse : Int] /\ gate'.mode = gate.mode
      BY <2>7 DEF GateTypeOK
    <3> QED
      BY <2>3, <2>7, <3>1
  <2> QED
    BY <1>3, <2>2, <2>4, <2>5, <2>6, <2>7 DEF Install
<1>4. CASE Remove
  <2>1. UNCHANGED <<virtual_input, trampoline, active, to, overtaken>>
    BY <1>4 DEF Remove, inputs
  <2>2. trampoline = Words(Original)
    BY <1>4 DEF Remove, Saved
  <2>3. CASE /\ pc = "unword0" /\ pc' = "unword1"
             /\ code' = [code EXCEPT ![1] = trampoline[1]] /\ UNCHANGED <<state, gate>>
    <3>1. code' \in [1..2 -> CodeWords] /\ code'[1] = Words(Original)[1]
      BY <2>2, <2>3, WordsType DEF GateTypeOK
    <3> QED
      BY <2>1, <2>2, <2>3, <3>1
      DEF GateTypeOK, Saved, GateInv, PatchesInstalled, Matched, Places
  <2>4. CASE /\ pc = "unword1" /\ pc' = "forget"
             /\ code' = [code EXCEPT ![2] = trampoline[2]] /\ UNCHANGED <<state, gate>>
    <3>1. /\ code' \in [1..2 -> CodeWords] /\ code'[2] = Words(Original)[2]
          /\ code'[1] = code[1]
      BY <2>2, <2>4, WordsType DEF GateTypeOK
    <3>2. code[1] = Words(Original)[1] => code' = Words(Original)
      BY <3>1, TwoWords, WordsType
    <3> QED
      BY <2>1, <2>2, <2>4, <3>1, <3>2
      DEF GateTypeOK, Saved, GateInv, PatchesInstalled, Matched, Places
  <2>5. CASE pc = "forget" /\ pc' = "delay" /\ state' = NotTried /\ gate' = NoGate /\ UNCHANGED code
    <3>1. gate' \in [mode : Modes, virtual : BOOLEAN, pulse : Int] /\ gate'.mode = Original
      BY <2>5, WordsType DEF NoGate
    <3> QED
      BY <2>1, <2>2, <2>5, <3>1
      DEF GateTypeOK, Saved, GateInv, PatchesInstalled, Matched, Places, NotTried, Installed
  <2> QED
    BY <1>4, <2>3, <2>4, <2>5 DEF Remove
<1>5. CASE Update
  <2>1. /\ pc = "update"
        /\ UNCHANGED <<virtual_input, code, trampoline, state, gate, to, overtaken>>
    BY <1>5 DEF Update, inputs
  <2>2. CASE state = Installed
    <3>1. active' = virtual_input /\ pc' = "edge"
      BY <1>5, <2>2 DEF Update
    <3> QED
      BY <2>1, <2>2, <3>1 DEF GateTypeOK, Saved, GateInv, PatchesInstalled, Matched, Places
  <2>3. CASE state # Installed
    <3>1. active' = active /\ pc' \in {"delay", "installed"}
      BY <1>5, <2>3 DEF Update, Return
    <3> QED
      BY <2>1, <2>3, <3>1 DEF GateTypeOK, Saved, GateInv, PatchesInstalled, Matched, Places
  <2> QED
    BY <2>2, <2>3
<1>6. CASE Edge
  <2>1. UNCHANGED <<virtual_input, code, trampoline, state, active, to, overtaken>>
    BY <1>6 DEF Edge, inputs
  <2>2. PulseOf(gate, active) \in Int
    BY DEF PulseOf, Pulse, GateTypeOK
  <2>3. /\ gate' \in [mode : Modes, virtual : BOOLEAN, pulse : Int]
        /\ gate'.mode = gate.mode
    BY <1>6, <2>2 DEF Edge, GateTypeOK
  <2>4. pc \in {"edge", "remember"} /\ pc' \in {"remember", "patch"}
    BY <1>6 DEF Edge
  <2> QED
    BY <2>1, <2>3, <2>4 DEF GateTypeOK, Saved, GateInv, PatchesInstalled, Matched, Places
<1>7. CASE Patch
  <2>1. /\ pc = "patch" /\ to' = ModeFor(gate.pulse)
        /\ pc' = IF gate.mode = to' THEN "spend" ELSE "word0"
        /\ UNCHANGED <<virtual_input, code, trampoline, state, gate, active, overtaken>>
    BY <1>7 DEF Patch, inputs
  <2>2. to' \in Modes /\ to' # Original
    BY <2>1, WordsType DEF ModeFor
  <2> QED
    BY <2>1, <2>2 DEF GateTypeOK, Saved, GateInv, PatchesInstalled, Matched, Places
<1>8. CASE Write
  <2>1. UNCHANGED <<virtual_input, trampoline, state, active, to, overtaken>>
    BY <1>8 DEF Write, inputs
  <2>2. CASE /\ pc = "word0" /\ pc' = "word1"
             /\ code' = [code EXCEPT ![1] = Words(to)[1]] /\ UNCHANGED gate
    <3>1. code' \in [1..2 -> CodeWords] /\ code'[1] = Words(to)[1]
      BY <2>2, WordsType DEF GateTypeOK
    <3> QED
      BY <2>1, <2>2, <3>1 DEF GateTypeOK, Saved, GateInv, PatchesInstalled, Matched, Places
  <2>3. CASE /\ pc = "word1" /\ pc' = "mark"
             /\ code' = [code EXCEPT ![2] = Words(to)[2]] /\ UNCHANGED gate
    <3>1. /\ code' \in [1..2 -> CodeWords] /\ code'[2] = Words(to)[2]
          /\ code'[1] = code[1]
      BY <2>3, WordsType DEF GateTypeOK
    <3>2. code[1] = Words(to)[1] => code' = Words(to)
      BY <3>1, TwoWords, WordsType DEF GateTypeOK
    <3> QED
      BY <2>1, <2>3, <3>1, <3>2
      DEF GateTypeOK, Saved, GateInv, PatchesInstalled, Matched, Places
  <2>4. CASE /\ pc = "mark" /\ pc' = "spend"
             /\ gate' = [gate EXCEPT !.mode = to] /\ UNCHANGED code
    <3>1. /\ gate' \in [mode : Modes, virtual : BOOLEAN, pulse : Int]
          /\ gate'.mode = to
      BY <2>4 DEF GateTypeOK
    <3> QED
      BY <2>1, <2>4, <3>1 DEF GateTypeOK, Saved, GateInv, PatchesInstalled, Matched, Places
  <2> QED
    BY <1>8, <2>2, <2>3, <2>4 DEF Write
<1>9. CASE Spend
  <2>1. /\ pc = "spend" /\ pc' \in {"delay", "installed"}
        /\ UNCHANGED <<virtual_input, code, trampoline, state, active, to, overtaken>>
    BY <1>9 DEF Spend, Return, inputs
  <2>2. /\ gate' \in [mode : Modes, virtual : BOOLEAN, pulse : Int]
        /\ gate'.mode = gate.mode
    BY <1>9 DEF Spend, Spent, Pulse, GateTypeOK
  <2> QED
    BY <2>1, <2>2 DEF GateTypeOK, Saved, GateInv, PatchesInstalled, Matched, Places
<1> QED
  BY <1>1, <1>2, <1>3, <1>4, <1>5, <1>6, <1>7, <1>8, <1>9 DEF special_button_thread

-----------------------------------------------------------------------------
(* The life of the module.                                                 *)

Stages ==
  {"not begun", "begun", "input", "gate", "gate1", "gate2", "removed", "hooks",
   "intercept", "main", "special", "power", "usb", "done"}
BeforeGate == {"not begun", "begun", "input", "gate"}
AfterGate ==
  {"removed", "hooks", "intercept", "main", "special", "power", "usb", "done"}
AfterHooks == AfterGate \ {"removed", "hooks"}
AfterIntercept == AfterHooks \ {"intercept"}
AfterMain == AfterIntercept \ {"main"}
AfterSpecial == AfterMain \ {"special"}
AfterPower == AfterSpecial \ {"power"}

LifeTypeOK ==
  /\ g_is_pops_context \in BOOLEAN
  /\ above \in BOOLEAN
  /\ unstarted \in 0..3
  /\ main \in {"none", "delay", "hook", "run", "gone"}
  /\ special \in {"none", "run", "told", "gone"}
  /\ power \in {"none", "run", "gone"}
  /\ cleanup \in [by : {"nobody", "special", "stop"}, next : Stages]
  /\ amid \in BOOLEAN /\ caught \in BOOLEAN

\* Who may clean up.
ByWhom ==
  /\ cleanup.by = "nobody" => Kept
  /\ cleanup.by = "stop" => unstarted = 0
  /\ cleanup.by = "special" => ~g_is_pops_context

\* special_button_thread is told to end, and does or is terminated.
Told ==
  cleanup.by = "stop" =>
    /\ cleanup.next # "begun" => special # "run"
    /\ cleanup.next \in AfterSpecial => special \in {"none", "gone"}

\* The places on the way to a patch of the words, of a gate that is not
\* installed.
ToPatch ==
  {"search", "match", "save", "install", "edge", "remember", "patch", "word0", "word1"}

\* It has no more to patch once the cleanup has come to the gate and has not
\* caught it at that: amid the removal it does not run, and after it it finds no
\* gate.
Quiet ==
  cleanup.next \notin BeforeGate =>
    /\ special \in {"none", "gone"} \/ pc \notin ToPatch
    /\ cleanup.next \in {"gate1", "gate2"} =>
         special \in {"none", "gone"} \/ At("delay") \/ above
    /\ cleanup.next \in AfterGate => state # Installed

\* What the steps of the cleanup have undone.
Undone ==
  /\ cleanup.next \in AfterHooks => hooked = {}
  /\ cleanup.next \in AfterIntercept => ~intercept
  /\ cleanup.next \in AfterMain => main \in {"none", "gone"}
  /\ cleanup.next = "done" => special \in {"none", "gone"}
  /\ cleanup.next \in AfterPower => power \in {"none", "gone"}
  /\ cleanup.next = "done" => ~usb

GateUndone ==
  /\ cleanup.next = "gate1" => code[1] = Words(Original)[1]
  /\ cleanup.next \in {"gate2"} \cup AfterGate => code = Words(Original)

LifeInv ==
  /\ GateTypeOK
  /\ LifeTypeOK
  /\ Saved
  /\ cleanup.next \in BeforeGate => GateInv
  /\ ByWhom
  /\ Told
  /\ ~amid => Undone
  /\ ~caught /\ g_is_pops_context => Quiet
  /\ ~amid /\ ~caught /\ ~overtaken => GateUndone

LEMMA LifeBegins == LifeInit => LifeInv
<1> SUFFICES ASSUME LifeInit PROVE LifeInv
  OBVIOUS
<1>0. /\ virtual_input = FALSE /\ code = Words(Original) /\ state = NotTried
      /\ gate = NoGate
      /\ pc = "delay" /\ active = FALSE /\ to = Original /\ overtaken = FALSE
  BY DEF LifeInit, Init, NoGate
<1>1. GateTypeOK
  <2>1. gate \in [mode : Modes, virtual : BOOLEAN, pulse : Int]
    <3>1. PICK zero \in Int : zero = 0
      OBVIOUS
    <3>2. gate = [mode |-> Original, virtual |-> FALSE, pulse |-> zero]
      BY <1>0, <3>1 DEF NoGate
    <3> QED
      BY <3>2, WordsType
  <2>2. code \in [1..2 -> CodeWords]
    BY <1>0, WordsType
  <2> QED
    BY <1>0, <2>1, <2>2, WordsType DEF GateTypeOK, Places
<1>2. Saved /\ GateInv
  <2>1. gate.mode = Original /\ state # Installed
    BY <1>0 DEF NoGate, NotTried, Installed
  <2> QED
    BY <1>0, <2>1 DEF Saved, GateInv, PatchesInstalled, Matched
<1>3. LifeTypeOK /\ ByWhom /\ Told /\ Quiet
  <2>1. cleanup \in [by : {"nobody", "special", "stop"}, next : Stages]
    BY DEF LifeInit, Stages
  <2>2. Kept
    BY DEF LifeInit, Kept
  <2>3. unstarted \in 0..3
    <3>1. unstarted = 3
      BY DEF LifeInit
    <3> QED
      BY <3>1
  <2>4. LifeTypeOK
    BY <2>1, <2>3 DEF LifeInit, LifeTypeOK
  <2>5. cleanup.by = "nobody"
    BY DEF LifeInit
  <2> QED
    BY <2>2, <2>4, <2>5 DEF ByWhom, Told, Quiet, Kept, BeforeGate
<1>4. Undone /\ GateUndone
  BY DEF LifeInit, Undone, GateUndone, AfterGate, AfterHooks, AfterIntercept, AfterMain,
         AfterSpecial, AfterPower
<1> QED
  BY <1>1, <1>2, <1>3, <1>4 DEF LifeInv

\* A step that does not touch the gate keeps what is known of it.
LEMMA GateStays ==
  ASSUME UNCHANGED vars
  PROVE  /\ GateTypeOK => GateTypeOK'
         /\ Saved => Saved'
         /\ GateInv => GateInv'
         /\ UNCHANGED <<pc, code, overtaken, state>>
BY DEF vars, inputs, locals, GateTypeOK, Saved, GateInv, PatchesInstalled, Matched

\* reset_remote_input_state does not either.
LEMMA GateStaysInReset ==
  ASSUME reset_remote_input_state
  PROVE  /\ GateTypeOK => GateTypeOK'
         /\ Saved => Saved'
         /\ GateInv => GateInv'
         /\ UNCHANGED <<pc, code, overtaken, state>>
BY DEF reset_remote_input_state, locals, GateTypeOK, Saved, GateInv, PatchesInstalled, Matched

LEMMA StageSets ==
  /\ AfterGate = {"removed", "hooks", "intercept", "main", "special", "power", "usb", "done"}
  /\ AfterHooks = {"intercept", "main", "special", "power", "usb", "done"}
  /\ AfterIntercept = {"main", "special", "power", "usb", "done"}
  /\ AfterMain = {"special", "power", "usb", "done"}
  /\ AfterSpecial = {"power", "usb", "done"}
  /\ AfterPower = {"usb", "done"}
BY DEF AfterGate, AfterHooks, AfterIntercept, AfterMain, AfterSpecial, AfterPower

\* main_thread runs amid a cleanup only if that is said, and not after it.
LEMMA MainKeeps ==
  ASSUME LifeInv, main_thread
  PROVE  LifeInv'
<1>1. /\ amid' = (amid \/ InCleanup)
      /\ main \in {"delay", "hook", "run"} /\ main' \in {"hook", "run", "gone"}
      /\ UNCHANGED <<g_is_pops_context, above, unstarted, special, power, cleanup, caught>>
  BY DEF main_thread, StartUsb, hook_ctrl_buffer_entry_functions,
         hook_ctrl_latch_functions, HandleEvent, MainResets, MainStep, threads
<1>2. \/ UNCHANGED vars
      \/ handle_joyevent
      \/ reset_remote_input_state
  BY DEF main_thread, StartUsb, hook_ctrl_buffer_entry_functions,
         hook_ctrl_latch_functions, HandleEvent, MainResets
<1>3. /\ GateTypeOK' /\ Saved' /\ (GateInv => GateInv') /\ UNCHANGED <<pc, state>>
  <2>1. handle_joyevent => UNCHANGED <<pc, state>>
    BY DEF handle_joyevent, Player2Status, ButtonEvent, locals
  <2> QED
    BY <1>2, <2>1, GateStays, GateStaysInReset, HandleJoyeventKeeps DEF LifeInv
<1>4. /\ LifeTypeOK' /\ ByWhom' /\ Told'
      /\ ~caught' /\ g_is_pops_context' => Quiet'
  BY <1>1, <1>3 DEF LifeInv, LifeTypeOK, ByWhom, Told, Quiet, Kept, At
<1>5. ASSUME ~amid' PROVE Kept
  BY <1>1, <1>5, StageSets DEF LifeInv, Undone, InCleanup, Kept, LifeTypeOK
<1>6. ASSUME Kept PROVE Undone' /\ GateUndone'
  BY <1>1, <1>6, StageSets DEF Undone, GateUndone, Kept
<1> QED
  BY <1>1, <1>3, <1>4, <1>5, <1>6 DEF LifeInv

\* A thread that is started amid a cleanup is not followed.
LEMMA StartKeeps ==
  ASSUME LifeInv, module_start
  PROVE  LifeInv'
<1>1. /\ unstarted > 0 /\ unstarted' = unstarted - 1
      /\ special' \in {"run", special} /\ power' \in {"run", power}
      /\ main' \in {"delay", main}
      /\ amid' = (amid \/ ~Kept)
      /\ UNCHANGED <<vars, g_is_pops_context, above, cleanup, caught>>
  BY DEF module_start
<1>2. /\ GateTypeOK' /\ Saved' /\ (GateInv => GateInv') /\ UNCHANGED <<pc, state>>
  BY <1>1, GateStays DEF LifeInv
<1>3. cleanup.by # "stop"
  BY <1>1 DEF LifeInv, ByWhom, LifeTypeOK
<1>4. LifeTypeOK'
  BY <1>1 DEF LifeInv, LifeTypeOK
<1>5. ByWhom' /\ Told'
  BY <1>1, <1>3 DEF LifeInv, LifeTypeOK, ByWhom, Told, Kept
<1>6. ASSUME ~amid' PROVE Undone' /\ GateUndone'
  BY <1>1, <1>6, StageSets DEF Undone, GateUndone, Kept
<1>7. ASSUME g_is_pops_context PROVE Quiet'
  <2>1. Kept
    BY <1>3, <1>7 DEF LifeInv, ByWhom, LifeTypeOK
  <2> QED
    BY <1>1, <2>1 DEF Quiet, Kept, BeforeGate
<1> QED
  BY <1>1, <1>2, <1>4, <1>5, <1>6, <1>7 DEF LifeInv

\* special_button_thread, on its way to its next delay with nothing to patch,
\* finds nothing to patch.
LEMMA QuietStep ==
  ASSUME GateTypeOK, Saved, special_button_thread,
         ~At("delay"), pc \notin ToPatch, state # Installed
  PROVE  /\ pc' \notin ToPatch /\ state' # Installed
         /\ code = Words(Original) => code' = Words(Original)
<1> USE DEF At, Goto
<1>1. ~Poll /\ ~Edge /\ ~Patch
  BY DEF Poll, Edge, Patch, ToPatch
<1>2. CASE TryInstall
  <2>1. pc = "give up"
    BY <1>2 DEF TryInstall, ToPatch
  <2>2. pc' = "update" /\ state' = GaveUp /\ UNCHANGED code
    BY <1>2, <2>1 DEF TryInstall
  <2> QED
    BY <2>2 DEF ToPatch, GaveUp, Installed
<1>3. CASE Install
  <2>1. UNCHANGED <<state, code>> /\ pc' \in {"reset virtual", "reset pulse", "update"}
    BY <1>3 DEF Install, ToPatch
  <2> QED
    BY <2>1 DEF ToPatch
<1>4. CASE Remove
  <2>1. trampoline = Words(Original)
    BY <1>4 DEF Remove, Saved
  <2>2. /\ code' = code \/ code' = [code EXCEPT ![1] = trampoline[1]]
                      \/ code' = [code EXCEPT ![2] = trampoline[2]]
        /\ state' \in {state, NotTried} /\ pc' \in {"unword1", "forget", "delay"}
    BY <1>4 DEF Remove
  <2>3. code = Words(Original) => code' = Words(Original)
    BY <2>1, <2>2, WordsType
  <2> QED
    BY <2>2, <2>3 DEF ToPatch, NotTried, Installed
<1>5. CASE Update
  <2>1. pc' \in {"delay", "installed"} /\ UNCHANGED <<state, code>>
    BY <1>5 DEF Update, Return
  <2> QED
    BY <2>1 DEF ToPatch
<1>6. CASE Write
  <2>1. pc' = "spend" /\ UNCHANGED <<state, code>>
    BY <1>6 DEF Write, ToPatch
  <2> QED
    BY <2>1 DEF ToPatch
<1>7. CASE Spend
  <2>1. pc' \in {"delay", "installed"} /\ UNCHANGED <<state, code>>
    BY <1>7 DEF Spend, Return
  <2> QED
    BY <2>1 DEF ToPatch
<1> QED
  BY <1>1, <1>2, <1>3, <1>4, <1>5, <1>6, <1>7 DEF special_button_thread

\* special_button_thread polls, in POPS.
LEMMA PollKeeps ==
  ASSUME LifeInv, PollInPops
  PROVE  LifeInv'
<1>1. /\ g_is_pops_context
      /\ special = "run" \/ (special = "told" /\ ~At("delay"))
      /\ ThreadsRun
      /\ special_button_thread
      /\ UNCHANGED life
  BY DEF PollInPops
<1>2. UNCHANGED <<g_is_pops_context, above, unstarted, main, special, power, usb, hooked,
                  cleanup, amid, caught, intercept, overtaken>>
  BY <1>1 DEF life, threads, padVars, history, special_button_thread, Poll, TryInstall,
     Install, Remove, Update, Edge, Patch, Write, Spend
<1>3. GateTypeOK' /\ Saved' /\ (GateInv => GateInv')
  BY <1>1, SpecialKeeps DEF LifeInv
<1>4. LifeTypeOK' /\ ByWhom' /\ Told' /\ (Undone => Undone')
  <2>1. LifeTypeOK' /\ ByWhom'
    BY <1>2 DEF LifeInv, LifeTypeOK, ByWhom, Kept
  <2>2. Told' /\ (Undone => Undone')
    BY <1>2 DEF LifeInv, Told, Undone
  <2> QED
    BY <2>1, <2>2
<1>5. CASE cleanup.next \in BeforeGate
  <2>1. Quiet' /\ GateUndone'
    BY <1>2, <1>5, StageSets DEF Quiet, GateUndone, BeforeGate
  <2> QED
    BY <1>2, <1>3, <1>4, <2>1 DEF LifeInv
<1>6. CASE cleanup.next \notin BeforeGate
  <2>1. cleanup.by = "stop" /\ special = "told" /\ ~At("delay")
    BY <1>1, <1>6 DEF LifeInv, LifeTypeOK, ByWhom, Told, Kept, BeforeGate
  <2>2. ASSUME ~caught
        PROVE  /\ Quiet' /\ (GateUndone => GateUndone')
    <3>1. /\ pc \notin ToPatch
          /\ cleanup.next \in {"gate1", "gate2"} => above
          /\ cleanup.next \in AfterGate => state # Installed
      BY <1>1, <1>6, <2>1, <2>2 DEF LifeInv, Quiet
    <3>2. cleanup.next \in AfterGate
      BY <1>1, <1>6, <2>1, <3>1, StageSets
      DEF ThreadsRun, CleanupAsleep, InCleanup, LifeInv, LifeTypeOK, Stages, BeforeGate
    <3>3. /\ pc' \notin ToPatch /\ state' # Installed
          /\ code = Words(Original) => code' = Words(Original)
      BY <1>1, <2>1, <3>1, <3>2, QuietStep DEF LifeInv
    <3> QED
      BY <1>2, <3>2, <3>3, StageSets DEF Quiet, GateUndone
  <2> QED
    BY <1>2, <1>3, <1>4, <1>6, <2>2 DEF LifeInv
<1> QED
  BY <1>5, <1>6

\* The steps that begin a cleanup, and those that change nothing of this.
LEMMA OthersKeep ==
  ASSUME LifeInv,
         \/ ctrl_read_latch_hook \/ SpecialEnds \/ YieldToPops \/ module_stop
         \/ PopsLoads /\ UNCHANGED life
         \/ UNCHANGED lifeVars
  PROVE  LifeInv'
<1>1. CASE \/ ctrl_read_latch_hook
           \/ PopsLoads /\ UNCHANGED life
           \/ UNCHANGED lifeVars
  <2>1. UNCHANGED <<g_is_pops_context, above, unstarted, main, special, power, usb, hooked,
                    cleanup, amid, caught, intercept>>
    BY <1>1 DEF ctrl_read_latch_hook, life, lifeVars, threads, padVars, history
  <2>2. UNCHANGED <<virtual_input, code, trampoline, state, gate, pc, active, to, overtaken>>
    BY <1>1 DEF ctrl_read_latch_hook, PopsLoads, lifeVars, vars, inputs, locals
  <2>3. /\ GateTypeOK' /\ Saved' /\ (GateInv => GateInv')
    BY <2>2 DEF LifeInv, GateTypeOK, Saved, GateInv, PatchesInstalled, Matched
  <2>4. /\ LifeTypeOK' /\ ByWhom' /\ Told'
        /\ Quiet => Quiet'
    <3>1. LifeTypeOK' /\ ByWhom'
      BY <2>1 DEF LifeInv, LifeTypeOK, ByWhom, Kept
    <3>2. Told' /\ (Quiet => Quiet')
      BY <2>1, <2>2 DEF LifeInv, Told, Quiet, At
    <3> QED
      BY <3>1, <3>2
  <2>5. (Undone => Undone') /\ (GateUndone => GateUndone')
    BY <2>1, <2>2 DEF Undone, GateUndone
  <2> QED
    BY <2>1, <2>2, <2>3, <2>4, <2>5 DEF LifeInv
<1>2. CASE SpecialEnds
  <2>1. /\ special' = "gone"
        /\ UNCHANGED <<vars, g_is_pops_context, above, unstarted, main, power, usb, hooked,
                       cleanup, amid, caught, intercept>>
    BY <1>2 DEF SpecialEnds, padVars, history
  <2>2. /\ GateTypeOK' /\ Saved' /\ (GateInv => GateInv')
        /\ UNCHANGED <<pc, code, overtaken, state>>
    BY <2>1, GateStays DEF LifeInv
  <2>3. /\ LifeTypeOK' /\ ByWhom' /\ Told'
        /\ Quiet => Quiet'
    BY <2>1, <2>2 DEF LifeInv, LifeTypeOK, ByWhom, Told, Quiet, Kept, At
  <2>4. (Undone => Undone') /\ (GateUndone => GateUndone')
    BY <2>1, <2>2 DEF Undone, GateUndone
  <2> QED
    BY <2>1, <2>2, <2>3, <2>4 DEF LifeInv
<1>3. CASE YieldToPops \/ module_stop
  <2>1. /\ Kept /\ cleanup'.next = "begun"
        /\ cleanup' \in [by : {"nobody", "special", "stop"}, next : Stages]
        /\ \/ cleanup'.by = "special" /\ ~g_is_pops_context
           \/ cleanup'.by = "stop" /\ unstarted = 0
        /\ UNCHANGED <<vars, g_is_pops_context, above, unstarted, main, special, power, amid,
                       caught>>
    <3>1. \/ cleanup' = [by |-> "special", next |-> "begun"] /\ ~g_is_pops_context
          \/ cleanup' = [by |-> "stop", next |-> "begun"] /\ unstarted = 0
      BY <1>3 DEF YieldToPops, module_stop, should_yield_to_pops_context
    <3>2. cleanup' \in [by : {"nobody", "special", "stop"}, next : Stages]
      <4>1. PICK w \in {"special", "stop"} : cleanup' = [by |-> w, next |-> "begun"]
        BY <3>1
      <4>2. w \in {"nobody", "special", "stop"} /\ "begun" \in Stages
        BY DEF Stages
      <4> QED
        BY <4>1, <4>2
    <3>3. /\ Kept
          /\ UNCHANGED <<vars, g_is_pops_context, above, unstarted, main, special, power, amid,
                         caught>>
      BY <1>3 DEF YieldToPops, module_stop, threads, history
    <3> QED
      BY <3>1, <3>2, <3>3
  <2>2. /\ GateTypeOK' /\ Saved' /\ (GateInv => GateInv')
    BY <2>1, GateStays DEF LifeInv
  <2>3. GateInv
    BY <2>1 DEF LifeInv, Kept, BeforeGate
  <2>4. LifeTypeOK' /\ ByWhom' /\ Told' /\ Quiet'
    BY StageSets, <2>1 DEF LifeInv, LifeTypeOK, ByWhom, Told, Quiet, BeforeGate
  <2>5. Undone' /\ GateUndone'
    BY <2>1, StageSets DEF Undone, GateUndone
  <2> QED
    BY <2>2, <2>3, <2>4, <2>5 DEF LifeInv
<1> QED
  BY <1>1, <1>2, <1>3

\* A step of the cleanup, by the stage it is in and the one it goes on to.
LEMMA CleanupStepIs ==
  ASSUME NEW at \in Stages, NEW then \in Stages, CleanupStep(at, then),
         cleanup \in [by : {"nobody", "special", "stop"}, next : Stages]
  PROVE  /\ cleanup.next = at /\ cleanup'.next = then /\ cleanup'.by = cleanup.by
         /\ cleanup' \in [by : {"nobody", "special", "stop"}, next : Stages]
         /\ cleanup.by = "stop" => StopRuns
BY DEF CleanupStep

LEMMA StagesAre ==
  \A at \in {"begun", "input", "gate", "gate1", "gate2", "removed", "hooks", "intercept",
             "main", "special", "power", "usb", "done"} : at \in Stages
BY DEF Stages

\* Before the gate.
LEMMA CleanupInputKeeps ==
  ASSUME LifeInv, CleanupTells \/ CleanupInput
  PROVE  LifeInv'
<1>1. /\ \/ cleanup.next = "begun" /\ cleanup'.next = "input"
         \/ cleanup.next = "input" /\ cleanup'.next = "gate"
      /\ cleanup'.by = cleanup.by
      /\ cleanup' \in [by : {"nobody", "special", "stop"}, next : Stages]
  BY CleanupStepIs, StagesAre DEF CleanupTells, CleanupInput, LifeInv, LifeTypeOK
<1>2. /\ special' = IF special = "run" /\ cleanup.next = "begun" THEN "told" ELSE special
      /\ UNCHANGED vars \/ reset_remote_input_state
      /\ UNCHANGED <<g_is_pops_context, above, unstarted, main, power, amid, caught>>
  BY <1>1 DEF CleanupTells, CleanupInput, CleanupStep, threads, history
<1>3. GateTypeOK' /\ Saved' /\ (GateInv => GateInv')
  BY <1>2, GateStays, GateStaysInReset DEF LifeInv
<1>4. GateInv
  BY <1>1 DEF LifeInv, BeforeGate
<1>5. LifeTypeOK'
  BY <1>1, <1>2 DEF LifeInv, LifeTypeOK
<1>6. ByWhom'
  BY <1>1, <1>2 DEF LifeInv, ByWhom, Kept
<1>7. Told'
  BY StageSets, <1>1, <1>2 DEF LifeInv, Told
<1>8. Quiet'
  BY <1>1 DEF Quiet, BeforeGate
<1>9. Undone' /\ GateUndone'
  BY <1>1, StageSets DEF Undone, GateUndone
<1> QED
  BY <1>3, <1>4, <1>5, <1>6, <1>7, <1>8, <1>9 DEF LifeInv

\* The words of the gate are restored, or are POPS's own already.
LEMMA CleanupGateKeeps ==
  ASSUME LifeInv, CleanupGate
  PROVE  LifeInv'
<1>1. /\ UNCHANGED <<virtual_input, trampoline, pc, active, to, overtaken,
                     g_is_pops_context, above, unstarted, main, special, power, amid>>
      /\ caught' = IF cleanup.next = "gate" THEN Patching ELSE caught
  BY DEF CleanupGate, inputs, locals, threads
<1>2. ASSUME NEW at \in {"gate", "gate1", "gate2"},
             NEW then \in {"gate1", "gate2", "removed", "hooks"},
             CleanupStep(at, then)
      PROVE  /\ cleanup.next = at /\ cleanup'.next = then
             /\ LifeTypeOK' /\ ByWhom' /\ Told' /\ Undone'
             /\ cleanup'.next \notin BeforeGate
             /\ cleanup.by = "stop" => StopRuns
  <2>1. at \in Stages /\ then \in Stages
    BY <1>2, StagesAre
  <2>2. /\ cleanup.next = at /\ cleanup'.next = then /\ cleanup'.by = cleanup.by
        /\ cleanup' \in [by : {"nobody", "special", "stop"}, next : Stages]
        /\ cleanup.by = "stop" => StopRuns
    BY <1>2, <2>1, CleanupStepIs DEF LifeInv, LifeTypeOK
  <2>3. LifeTypeOK'
    BY <1>1, <2>2 DEF LifeInv, LifeTypeOK, Patching
  <2>4. ByWhom'
    BY <1>1, <1>2, <2>2 DEF LifeInv, ByWhom, Kept
  <2>5. Told'
    BY StageSets, <1>1, <1>2, <2>2 DEF LifeInv, Told
  <2>6. Undone' /\ cleanup'.next \notin BeforeGate
    BY <1>2, <2>2, StageSets DEF Undone, BeforeGate
  <2> QED
    BY <2>2, <2>3, <2>4, <2>5, <2>6
\* The thread was not caught on its way to a patch.
<1>3. ASSUME cleanup.next = "gate", ~caught', g_is_pops_context,
             cleanup.by = "stop" => StopRuns, cleanup'.next \notin BeforeGate
      PROVE  /\ special \in {"none", "gone"} \/ pc \notin ToPatch
             /\ state = Installed => special \in {"none", "gone"} \/ At("delay") \/ above
  <2>1. cleanup.by = "stop" /\ special # "run"
    BY <1>3 DEF LifeInv, LifeTypeOK, ByWhom, Told, Kept
  <2>2. special \in {"none", "gone"} \/ ~(pc \in ToPatch \/ pc = "installed")
    BY <1>1, <1>3 DEF Patching, ToPatch, LifeInv, LifeTypeOK
  <2>3. pc = "give up" => state = NotTried
    BY DEF LifeInv, Saved
  <2>4. ASSUME state = Installed
        PROVE  special \in {"none", "gone"} \/ At("delay") \/ above
    <3>1. above \/ special \in {"none", "gone"} \/ Sleeps
      BY <1>3, <2>1 DEF StopRuns
    <3>2. pc # "give up"
      BY <2>3, <2>4, StatesDiffer
    <3> QED
      BY <2>2, <3>1, <3>2 DEF Sleeps, ToPatch, At
  <2> QED
    BY <2>2, <2>4
<1>4. CASE state = Installed
  <2>0. pc \notin {"search", "match", "give up", "save", "install"}
    BY <1>4, StatesDiffer DEF LifeInv, Saved
  <2>1. trampoline = Words(Original)
    BY <1>4 DEF LifeInv, Saved
  <2>2. CASE /\ CleanupStep("gate", "gate1")
             /\ code' = [code EXCEPT ![1] = trampoline[1]] /\ UNCHANGED <<state, gate>>
    <3>1. code' \in [1..2 -> CodeWords] /\ code'[1] = Words(Original)[1]
      BY <2>1, <2>2, WordsType DEF LifeInv, GateTypeOK
    <3>2. GateTypeOK'
      BY <1>1, <2>2, <3>1 DEF LifeInv, GateTypeOK
    <3>3. Saved'
      BY <1>1, <2>0, <2>1 DEF Saved
    <3>4. /\ cleanup.next = "gate" /\ cleanup'.next = "gate1"
          /\ LifeTypeOK' /\ ByWhom' /\ Told' /\ Undone'
          /\ cleanup'.next \notin BeforeGate
          /\ cleanup.by = "stop" => StopRuns
      BY <1>2, <2>2
    <3>5. GateUndone'
      BY <3>1, <3>4, StageSets DEF GateUndone
    <3>6. ~caught' /\ g_is_pops_context' => Quiet'
      BY <1>1, <1>3, <1>4, <3>4, StageSets DEF Quiet, At
    <3> QED
      BY <3>2, <3>3, <3>4, <3>5, <3>6 DEF LifeInv
  <2>3. CASE /\ CleanupStep("gate1", "gate2")
             /\ code' = [code EXCEPT ![2] = trampoline[2]] /\ UNCHANGED <<state, gate>>
    <3>1. /\ code' \in [1..2 -> CodeWords] /\ code'[2] = Words(Original)[2]
          /\ code'[1] = code[1]
      BY <2>1, <2>3, WordsType DEF LifeInv, GateTypeOK
    <3>2. GateTypeOK'
      BY <1>1, <2>3, <3>1 DEF LifeInv, GateTypeOK
    <3>3. Saved'
      BY <1>1, <2>0, <2>1 DEF Saved
    <3>4. /\ cleanup.next = "gate1" /\ cleanup'.next = "gate2" /\ UNCHANGED caught
          /\ LifeTypeOK' /\ ByWhom' /\ Told' /\ Undone'
          /\ cleanup'.next \notin BeforeGate
      BY <1>1, <1>2, <2>3
    <3>5. code[1] = Words(Original)[1] => code' = Words(Original)
      BY <3>1, TwoWords, WordsType
    <3>6. GateUndone => GateUndone'
      BY <3>4, <3>5, StageSets DEF GateUndone
    <3>7. Quiet => Quiet'
      BY <1>1, <3>4, StageSets DEF Quiet, At, BeforeGate
    <3> QED
      BY <1>1, <3>2, <3>3, <3>4, <3>6, <3>7 DEF LifeInv
  <2>4. CASE /\ CleanupStep("gate2", "removed")
             /\ state' = NotTried /\ gate' = NoGate /\ UNCHANGED code
    <3>1. gate' \in [mode : Modes, virtual : BOOLEAN, pulse : Int]
      BY <2>4, WordsType DEF NoGate
    <3>2. GateTypeOK'
      BY <1>1, <2>4, <3>1 DEF LifeInv, GateTypeOK
    <3>3. Saved'
      BY <1>1, <2>0, <2>1 DEF Saved
    <3>4. /\ cleanup.next = "gate2" /\ cleanup'.next = "removed" /\ UNCHANGED caught
          /\ LifeTypeOK' /\ ByWhom' /\ Told' /\ Undone'
          /\ cleanup'.next \notin BeforeGate
      BY <1>1, <1>2, <2>4
    <3>5. GateUndone => GateUndone'
      BY <2>4, <3>4, StageSets DEF GateUndone
    <3>6. Quiet => Quiet'
      BY <1>1, <2>4, <3>4, StageSets DEF Quiet, BeforeGate, NotTried, Installed
    <3> QED
      BY <1>1, <3>2, <3>3, <3>4, <3>5, <3>6 DEF LifeInv
  <2> QED
    BY <1>4, <2>2, <2>3, <2>4 DEF CleanupGate
<1>5. CASE state # Installed
  <2>1. CleanupStep("gate", "hooks") /\ UNCHANGED <<code, state, gate>>
    BY <1>5 DEF CleanupGate
  <2>2. GateTypeOK' /\ Saved'
    BY <1>1, <2>1 DEF LifeInv, GateTypeOK, Saved
  <2>3. /\ cleanup.next = "gate" /\ cleanup'.next = "hooks"
        /\ LifeTypeOK' /\ ByWhom' /\ Told' /\ Undone'
        /\ cleanup'.next \notin BeforeGate
        /\ cleanup.by = "stop" => StopRuns
    BY <1>2, <2>1
  <2>4. ~overtaken => code = Words(Original)
    BY <1>5, <2>3 DEF LifeInv, BeforeGate, GateInv, Matched
  <2>5. ~overtaken => GateUndone'
    BY <2>1, <2>3, <2>4, StageSets DEF GateUndone
  <2>6. ~caught' /\ g_is_pops_context' => Quiet'
    BY <1>1, <1>3, <1>5, <2>1, <2>3, StageSets DEF Quiet
  <2> QED
    BY <1>1, <2>2, <2>3, <2>5, <2>6 DEF LifeInv
<1> QED
  BY <1>4, <1>5

\* The hooks, HOME, the threads and the driver.
LEMMA CleanupRestKeeps ==
  ASSUME LifeInv,
         restore_ctrl_hooks \/ CleanupIntercept \/ CleanupThreads \/ CleanupUsb
  PROVE  LifeInv'
<1>1. /\ UNCHANGED <<vars, g_is_pops_context, above, unstarted, amid, caught>>
      /\ main' \in {main, "none", "gone"} /\ special' \in {special, "none", "gone"}
      /\ power' \in {power, "none", "gone"}
  BY DEF restore_ctrl_hooks, CleanupIntercept, CleanupThreads, CleanupUsb, threads, Killed,
         history
<1>2. /\ GateTypeOK' /\ Saved' /\ UNCHANGED <<pc, code, overtaken, state>>
  BY <1>1, GateStays DEF LifeInv
<1> DEFINE Does(at, then) ==
      /\ CleanupStep(at, then)
      /\ at \in {"removed", "hooks"} =>
           /\ then = "intercept"
           /\ hooked' = {}
           /\ UNCHANGED <<main, special, power, usb, intercept>>
      /\ at = "intercept" =>
           /\ then = "main"
           /\ ~intercept'
           /\ UNCHANGED <<main, special, power, usb, hooked>>
      /\ at = "main" =>
           /\ then = "special"
           /\ main' \in {"none", "gone"}
           /\ UNCHANGED <<special, power, usb, hooked, intercept>>
      /\ at = "special" =>
           /\ then = "power"
           /\ cleanup.by = "special" \/ special' \in {"none", "gone"}
           /\ UNCHANGED <<main, power, usb, hooked, intercept>>
      /\ at = "power" =>
           /\ then = "usb"
           /\ power' \in {"none", "gone"}
           /\ UNCHANGED <<main, special, usb, hooked, intercept>>
      /\ at = "usb" =>
           /\ then = "done"
           /\ ~usb'
           /\ UNCHANGED <<main, power, hooked, intercept>>
           /\ special' = IF cleanup.by = "special" THEN "gone" ELSE special
<1>3. PICK at \in {"removed", "hooks", "intercept", "main", "special", "power", "usb"},
           then \in Stages :
        Does(at, then)
  <2>1. CASE restore_ctrl_hooks
    <3>1. Does("hooks", "intercept") \/ Does("removed", "intercept")
      BY <2>1 DEF restore_ctrl_hooks, threads, padVars, Unhooked
    <3> QED
      BY <3>1, StagesAre
  <2>2. CASE CleanupIntercept
    <3>1. Does("intercept", "main")
      BY <2>2 DEF CleanupIntercept, threads
    <3> QED
      BY <3>1, StagesAre
  <2>3. CASE CleanupThreads
    <3>1. UNCHANGED <<usb, hooked, intercept>>
      BY <2>3 DEF CleanupThreads, padVars
    <3>2. \/ /\ CleanupStep("main", "special")
             /\ main' \in {"none", "gone"} /\ UNCHANGED <<special, power>>
          \/ /\ CleanupStep("special", "power")
             /\ cleanup.by = "special" \/ special' \in {"none", "gone"}
             /\ UNCHANGED <<main, power>>
          \/ /\ CleanupStep("power", "usb")
             /\ power' \in {"none", "gone"} /\ UNCHANGED <<main, special>>
      BY <2>3 DEF CleanupThreads, Killed
    <3>3. Does("main", "special") \/ Does("special", "power") \/ Does("power", "usb")
      BY <3>1, <3>2
    <3> QED
      BY <3>3, StagesAre
  <2>4. CASE CleanupUsb
    <3>1. Does("usb", "done")
      BY <2>4 DEF CleanupUsb, padVars
    <3> QED
      BY <3>1, StagesAre
  <2> QED
    BY <2>1, <2>2, <2>3, <2>4
<1>4. /\ cleanup.next = at /\ cleanup'.next = then /\ cleanup'.by = cleanup.by
      /\ cleanup' \in [by : {"nobody", "special", "stop"}, next : Stages]
  BY <1>3, StagesAre, CleanupStepIs DEF LifeInv, LifeTypeOK
<1>5. /\ cleanup.next \in {"removed", "hooks", "intercept", "main", "special", "power",
                            "usb"}
      /\ cleanup'.next \in {"intercept", "main", "special", "power", "usb", "done"}
  BY <1>3, <1>4
<1>6. LifeTypeOK'
  BY <1>1, <1>4 DEF LifeInv, LifeTypeOK
<1>7. ByWhom'
  BY <1>1, <1>4, <1>5 DEF LifeInv, ByWhom, Kept
<1>8. Undone => Undone'
  <2>0. cleanup.by = "stop" \/ cleanup.by = "special"
    BY <1>5 DEF LifeInv, LifeTypeOK, ByWhom, Kept
  <2> SUFFICES ASSUME Undone PROVE Undone'
    OBVIOUS
  <2>1. hooked' = {}
    BY <1>3, <1>4, StageSets DEF Undone
  <2>2. cleanup'.next \in AfterIntercept => ~intercept'
    BY <1>3, <1>4, StageSets DEF Undone
  <2>3. cleanup'.next \in AfterMain => main' \in {"none", "gone"}
    BY <1>3, <1>4, StageSets DEF Undone
  <2>4. cleanup'.next = "done" => special' \in {"none", "gone"}
    BY <2>0, <1>3, <1>4, StageSets DEF LifeInv, Told
  <2>5. cleanup'.next \in AfterPower => power' \in {"none", "gone"}
    BY <1>3, <1>4, StageSets DEF Undone
  <2>6. cleanup'.next = "done" => ~usb'
    BY <1>3, <1>4
  <2> QED
    BY <2>1, <2>2, <2>3, <2>4, <2>5, <2>6 DEF Undone
<1>9. GateUndone => GateUndone'
  BY <1>2, <1>5, StageSets DEF GateUndone
<1>10. Told' /\ (Quiet => Quiet')
  <2>1. ASSUME cleanup.by = "stop", cleanup'.next \in AfterSpecial
        PROVE  special' \in {"none", "gone"}
    BY <1>3, <1>4, <2>1, StageSets DEF LifeInv, Told
  <2>2. ASSUME cleanup.by = "stop" PROVE special' # "run"
    BY <1>1, <1>5, <2>2 DEF LifeInv, Told
  <2>3. Told'
    BY <1>4, <2>1, <2>2 DEF Told
  <2>4. Quiet => Quiet'
    BY <1>1, <1>2, <1>5, StageSets DEF Quiet, BeforeGate
  <2> QED
    BY <2>3, <2>4
<1>11. cleanup'.next \notin BeforeGate
  BY <1>5 DEF BeforeGate
<1> QED
  BY <1>1, <1>2, <1>6, <1>7, <1>8, <1>9, <1>10, <1>11 DEF LifeInv

\* The invariant, for every behaviour of the plugin.
THEOREM LifeInvariant == LifeSpec => []LifeInv
<1>1. LifeInit => LifeInv
  BY LifeBegins
<1>2. LifeInv /\ [LifeNext]_lifeVars => LifeInv'
  BY MainKeeps, StartKeeps, PollKeeps, OthersKeep, CleanupInputKeeps, CleanupGateKeeps,
     CleanupRestKeeps
  DEF LifeNext, cleanup_module
<1> QED
  BY <1>1, <1>2, PTL DEF LifeSpec

\* What try_install_pops_gate_hook saves, and remove_pops_gate_hook and
\* cleanup_module restore, is POPS's own code.
THEOREM SavedIsOriginal == LifeSpec => []TrampolineIsOriginal
<1>1. LifeInv => TrampolineIsOriginal
  BY DEF LifeInv, Saved, TrampolineIsOriginal
<1> QED
  BY <1>1, LifeInvariant, PTL

\* Until the cleanup, g_pops_gate_mode tells the words of the gate between two
\* polls, unless main_thread has patched it in one of the four windows.
THEOREM GateMatches == LifeSpec => []GateMatchesWhileLoaded
<1>1. LifeInv => GateMatchesWhileLoaded
  BY DEF LifeInv, GateMatchesWhileLoaded, GateMatchesMode, GateInv, Matched, Kept,
         BeforeGate, At
<1> QED
  BY <1>1, LifeInvariant, PTL

\* A cleanup_module that main_thread and module_start kept out of leaves no
\* hook, no thread and no driver, wherever special_button_thread was when it
\* came; and none of its words in POPS, unless it caught that thread on its way
\* to a patch, or main_thread had torn them.
THEOREM NothingLeft == LifeSpec => []NothingLeftBehind
<1>1. LifeInv => NothingLeftBehind
  BY StageSets DEF LifeInv, Undone, GateUndone, NothingLeftBehind
<1> QED
  BY <1>1, LifeInvariant, PTL

-----------------------------------------------------------------------------
(* The latches.                                                            *)

\* What a game is shown of the buttons now.
Shown == sanitize_remote_buttons(buttons)

\* The latches hold every press and release since the game's last poll, or
\* since the last reset, when everything held was pressed since.
LatchInv ==
  IF reset
  THEN latch.break \subseteq latch.make /\ Pressed \subseteq Shown /\ Shown \subseteq latch.make
  ELSE /\ Pressed \subseteq Shown \ seen
       /\ Released \subseteq seen \ Shown
       /\ Shown \ seen \subseteq latch.make
       /\ seen \ Shown \subseteq latch.break

LEMMA LatchStep ==
  ASSUME LatchInv, [LifeNext]_lifeVars
  PROVE  LatchInv'
<1>1. CASE /\ latch' = Latched(buttons, buttons')
           /\ UNCHANGED gameVars
  <2>1. UNCHANGED <<seen, reset>>
    BY <1>1 DEF gameVars
  <2>2. PICK is, was : is = Shown' /\ was = Shown
    OBVIOUS
  <2>3. latch'.make = latch.make \cup (is \ was) /\ latch'.break = latch.break \cup (was \ is)
    BY <1>1, <2>2 DEF Latched, Shown
  <2> QED
    BY <2>1, <2>2, <2>3 DEF LatchInv, Pressed, Released
<1>2. CASE PadReset
  <2>1. Shown' = {} /\ latch'.make = {} /\ latch'.break = {} /\ reset' = TRUE
    BY <1>2 DEF PadReset, Shown, sanitize_remote_buttons, NoLatch
  <2> QED
    BY <2>1 DEF LatchInv, Pressed
<1>3. CASE ctrl_read_latch_hook
  <2>1. /\ seen' = Shown /\ Shown' = Shown
        /\ latch'.make = {} /\ latch'.break = {} /\ reset' = FALSE
    BY <1>3 DEF ctrl_read_latch_hook, Shown, NoLatch
  <2> QED
    BY <2>1 DEF LatchInv, Pressed, Released
<1>4. CASE UNCHANGED <<buttons, latch, seen, reset>>
  BY <1>4 DEF LatchInv, Pressed, Released, Shown
<1>5. \/ latch' = Latched(buttons, buttons') /\ UNCHANGED gameVars
      \/ PadReset
      \/ ctrl_read_latch_hook
      \/ UNCHANGED <<buttons, latch, seen, reset>>
  <2>1. CASE main_thread
    BY <2>1 DEF main_thread, StartUsb, hook_ctrl_buffer_entry_functions,
       hook_ctrl_latch_functions, HandleEvent, MainResets, padVars, gameVars
  <2>2. CASE cleanup_module
    BY <2>2 DEF cleanup_module, CleanupTells, CleanupInput, CleanupGate, restore_ctrl_hooks,
       CleanupIntercept, CleanupThreads, CleanupUsb, padVars, gameVars
  <2>3. CASE module_start \/ SpecialEnds \/ YieldToPops \/ module_stop
    BY <2>3 DEF module_start, SpecialEnds, YieldToPops, module_stop, padVars, gameVars
  <2>4. CASE PollInPops \/ (PopsLoads /\ UNCHANGED life) \/ UNCHANGED lifeVars
    BY <2>4 DEF PollInPops, life, lifeVars, padVars, gameVars
  <2> QED
    BY <2>1, <2>2, <2>3, <2>4 DEF LifeNext
<1> QED
  BY <1>1, <1>2, <1>3, <1>4, <1>5

THEOREM LatchInvariant == LifeSpec => []LatchInv
<1>1. LifeInit => LatchInv
  <2> SUFFICES ASSUME LifeInit PROVE LatchInv
    OBVIOUS
  <2>1. buttons = {} /\ latch = NoLatch /\ seen = {} /\ reset = FALSE
    BY DEF LifeInit
  <2>2. Shown = {} /\ latch.make = {} /\ latch.break = {}
    BY <2>1 DEF Shown, sanitize_remote_buttons, NoLatch
  <2> QED
    BY <2>1, <2>2 DEF LatchInv, Pressed, Released
<1> QED
  BY <1>1, LatchStep, PTL DEF LifeSpec

\* ctrl_read_latch_hook tells a game of every press and release of what it is
\* shown, and of none that did not happen.
THEOREM LatchesAreTold == LifeSpec => LatchesTell
<1>1. ASSUME LatchInv, ctrl_read_latch_hook
      PROVE  /\ Pressed \subseteq seen' /\ Released \subseteq seen
             /\ ~reset => /\ Pressed \subseteq seen' \ seen
                          /\ Released \subseteq seen \ seen'
                          /\ seen' \ seen \subseteq latch.make
                          /\ seen \ seen' \subseteq latch.break
  <2>1. seen' = Shown
    BY <1>1 DEF ctrl_read_latch_hook, Shown
  <2> QED
    BY <1>1, <2>1 DEF LatchInv, Pressed, Released
<1>2. LatchInv =>
        [ctrl_read_latch_hook =>
           /\ Pressed \subseteq seen' /\ Released \subseteq seen
           /\ ~reset => /\ Pressed \subseteq seen' \ seen
                        /\ Released \subseteq seen \ seen'
                        /\ seen' \ seen \subseteq latch.make
                        /\ seen \ seen' \subseteq latch.break]_lifeVars
  BY <1>1
<1> QED
  BY <1>2, LatchInvariant, PTL DEF LatchesTell

-----------------------------------------------------------------------------
(***************************************************************************)
(* The aim (PopsAim)                                                       *)
(***************************************************************************)

Dark == is_no_light(s_aim_xy)

\* What the readings leave behind: the last lit one is lit, and while it counts
\* the two ages of the dark agree.
LightInv ==
  /\ dark_for \in 0..GUN_HOLD /\ no_light_age \in 0..GUN_HOLD
  /\ ~is_no_light(s_lit_xy)
  /\ s_lit_valid => sender = "gun" /\ s_aim_valid /\ s_aim_raw
  /\ s_aim_valid /\ s_aim_raw => sender = "gun"
  /\ s_aim_valid /\ s_aim_raw /\ ~Dark => s_lit_valid
  /\ ~s_lit_valid => dark_for = GUN_HOLD
  /\ s_lit_valid => dark_for = (IF Dark THEN no_light_age ELSE 0)

\* What is held back or held is held as the flash or the shot says: a flash that
\* has seen no light was as long in the dark.
ShotInv ==
  /\ shot_age \in Nat
  /\ s_shot_state = "HELD" => s_shot_xy = NO_LIGHT \/ ~is_no_light(s_shot_xy)
  /\ s_shot_state = "FLASH" /\ ~new_light =>
       /\ Dark \/ dark_for = GUN_HOLD
       /\ shot_age <= dark_for \/ dark_for = GUN_HOLD
  /\ owed => s_shot_state = "FLASH"

\* A poll that has decided to write a real gun's position.
PollInv == poll = "raw" => sender = "gun" /\ s_aim_raw

AimInv == LightInv /\ ShotInv /\ PollInv

LEMMA HoldTimes ==
  /\ GUN_HOLD \in Nat /\ GUN_HOLD > 0 /\ SHOT_HOLD \in Nat
  /\ FLASH_WAIT \in Nat /\ FLASH_WAIT > 0 /\ FLASH_WAIT <= GUN_HOLD
BY HoldAssumption

LEMMA LightKept ==
  ASSUME LightInv, [AimNext]_aimVars
  PROVE  LightInv'
<1> USE HoldTimes DEF LightInv, Dark
<1>1. ASSUME NEW xy, pops_aim_set(xy)
      PROVE  LightInv'
  BY <1>1 DEF pops_aim_set
<1>2. ASSUME NEW xy, pops_aim_set_raw(xy)
      PROVE  LightInv'
  <2>1. CASE is_no_light(xy)
    BY <1>2, <2>1 DEF pops_aim_set_raw
  <2>2. CASE ~is_no_light(xy)
    BY <1>2, <2>2 DEF pops_aim_set_raw
  <2> QED
    BY <2>1, <2>2
<1>3. CASE pops_aim_set_offscreen
  BY <1>3 DEF pops_aim_set_offscreen
<1>4. CASE pops_aim_release
  BY <1>4 DEF pops_aim_release
<1>5. CASE Tick
  BY <1>5 DEF Tick, Older, Least
<1>6. CASE UNCHANGED <<sender, eventVars>>
  BY <1>6 DEF eventVars
<1> QED
  BY <1>1, <1>2, <1>3, <1>4, <1>5, <1>6 DEF AimNext, AimEvent, PopsPolls,
     trigger_event, inject_remote_values, ctrl_peek_negative_hook, pops_aim_apply,
     ApplyBeforeFound, ApplyReleased, ApplyAimed, ApplyWrites, PopsStarts,
     pops_aim_find_pad_state, aimVars

\* Without light the gun is at "no light" or at a place where it was lit.
LEMMA GunPlace ==
  ASSUME LightInv, ShotInv
  PROVE  /\ is_no_light(gun_xy) => gun_xy = NO_LIGHT /\ Dark
         /\ ~Dark => gun_xy = s_aim_xy
         /\ Dark /\ shot_holding => gun_xy = s_shot_xy
         /\ Dark /\ ~shot_holding =>
              gun_xy = IF s_lit_valid /\ no_light_age < GUN_HOLD THEN s_lit_xy
                       ELSE NO_LIGHT
<1>1. CASE ~Dark
  BY <1>1 DEF gun_xy, Dark
<1>2. CASE Dark /\ shot_holding
  BY <1>2 DEF gun_xy, Dark, ShotInv, shot_holding
<1>3. CASE Dark /\ ~shot_holding /\ s_lit_valid /\ no_light_age < GUN_HOLD
  BY <1>3 DEF gun_xy, Dark, LightInv
<1>4. CASE Dark /\ ~shot_holding /\ ~(s_lit_valid /\ no_light_age < GUN_HOLD)
  BY <1>4 DEF gun_xy, Dark
<1> QED
  BY <1>1, <1>2, <1>3, <1>4

LEMMA NoLightIsDark == is_no_light(NO_LIGHT)
  BY DEF is_no_light, NO_LIGHT

\* A press that was held back is passed on by a lit shot, or by one at "no light"
\* that the flash has waited for.
LEMMA FilterKeeps ==
  ASSUME LightInv, ShotInv, NEW passed \in BOOLEAN, pops_aim_filter_buttons(passed),
         owed' = (GunAimed /\ ~passed /\ (trigger \/ owed)),
         UNCHANGED <<sender, trigger, eventVars>>
  PROVE  ShotInv' /\ ShotExpires
<1>0. is_no_light(gun_xy) => Dark
  BY GunPlace
<1> USE HoldTimes, NoLightIsDark DEF ShotInv, ShotExpires, LightInv, Dark
<1>1. CASE PassOn(passed)
  BY <1>1 DEF PassOn, eventVars
<1>2. CASE ShootLit(passed)
  BY <1>2 DEF ShootLit, shot_fire, Pulled, eventVars
<1>3. CASE ShootDark(passed)
  <2>1. /\ s_shot_state' = "FLASH" /\ shot_age' = 0 /\ ~passed
        /\ s_aim_xy' = s_aim_xy /\ dark_for' = dark_for
    BY <1>3 DEF ShootDark, eventVars
  <2>2. Dark
    BY <1>0, <1>3 DEF ShootDark
  <2>3. ShotExpires
    BY <1>3 DEF ShootDark, Pulled
  <2>4. ShotInv'
    BY <2>1, <2>2
  <2> QED
    BY <2>3, <2>4
<1>4. CASE FlashLit(passed)
  BY <1>4 DEF FlashLit, Flashing, shot_fire, eventVars
<1>5. CASE FlashExpired(passed)
  <2>1. dark_for >= FLASH_WAIT
    BY <1>5 DEF FlashExpired, Flashing
  <2> QED
    BY <1>5, <2>1 DEF FlashExpired, shot_fire, eventVars
<1>6. CASE FlashWaits(passed)
  BY <1>6 DEF FlashWaits, Flashing, eventVars
<1>7. CASE NoShot(passed)
  BY <1>7 DEF NoShot, shot_holding, eventVars
<1> QED
  BY <1>1, <1>2, <1>3, <1>4, <1>5, <1>6, <1>7 DEF pops_aim_filter_buttons

LEMMA ShotKept ==
  ASSUME LightInv, ShotInv, [AimNext]_aimVars
  PROVE  ShotInv' /\ ShotExpires
<1>1. ASSUME NEW xy, pops_aim_set(xy)
      PROVE  ShotInv' /\ ShotExpires
  BY <1>1 DEF ShotInv, ShotExpires, LightInv, Dark, pops_aim_set, UnchangedByEvents,
     shotVars, pollVars
<1>2. ASSUME NEW xy, pops_aim_set_raw(xy)
      PROVE  ShotInv' /\ ShotExpires
  BY <1>2 DEF ShotInv, ShotExpires, Dark, pops_aim_set_raw, pollVars
<1>3. CASE pops_aim_set_offscreen
  BY <1>3 DEF ShotInv, ShotExpires, Dark, pops_aim_set_offscreen, UnchangedByEvents,
     shotVars, pollVars
<1>4. CASE pops_aim_release
  BY <1>4 DEF ShotInv, ShotExpires, Dark, pops_aim_release, UnchangedByEvents,
     shotVars, pollVars
<1>5. CASE inject_remote_values
  BY <1>5, FilterKeeps DEF inject_remote_values
<1>6. CASE Tick
  <2>1. shot_age' \in Nat /\ shot_age' <= shot_age + 1
    BY <1>6, HoldTimes DEF ShotInv, Tick, Older, Least, Most
  <2>2. Dark => dark_for' = dark_for + 1 \/ dark_for' = GUN_HOLD
    BY <1>6 DEF Tick, Older, Least, Dark
  <2>3. dark_for = GUN_HOLD => dark_for' = GUN_HOLD
    BY <1>6, HoldTimes DEF Tick, Older, Least
  <2>4. UNCHANGED <<s_shot_state, s_shot_xy, new_light, owed, s_aim_xy>>
    BY <1>6 DEF Tick, pollVars
  <2> QED
    BY <2>1, <2>2, <2>3, <2>4 DEF ShotInv, ShotExpires, Dark, LightInv
<1>7. CASE UNCHANGED <<shotVars, owed, eventVars>>
  BY <1>7 DEF ShotInv, ShotExpires, Dark, shotVars, eventVars
<1> QED
  BY <1>1, <1>2, <1>3, <1>4, <1>5, <1>6, <1>7 DEF AimNext, AimEvent, PopsPolls,
     trigger_event, UnchangedByEvents, ctrl_peek_negative_hook, pops_aim_apply,
     ApplyBeforeFound, ApplyReleased, ApplyAimed, ApplyWrites, PopsStarts,
     pops_aim_find_pad_state, aimVars, pollVars

LEMMA PollKept ==
  ASSUME LightInv, PollInv, [AimNext]_aimVars
  PROVE  PollInv'
<1> USE DEF PollInv
<1>1. ASSUME NEW xy, pops_aim_set(xy) \/ pops_aim_set_raw(xy)
      PROVE  PollInv'
  BY <1>1 DEF pops_aim_set, pops_aim_set_raw, UnchangedByEvents, pollVars
<1>2. CASE pops_aim_set_offscreen \/ pops_aim_release
  BY <1>2 DEF pops_aim_set_offscreen, pops_aim_release, UnchangedByEvents, pollVars
<1>3. CASE ApplyAimed
  <2>1. poll' = "raw" => s_aim_raw
    BY <1>3 DEF ApplyAimed
  <2> QED
    BY <1>3, <2>1 DEF ApplyAimed, LightInv, eventVars
<1>4. CASE poll' = "apply" \/ poll' = "idle"
  BY <1>4
<1>5. CASE UNCHANGED <<poll, sender, s_aim_raw>>
  BY <1>5
<1> QED
  BY <1>1, <1>2, <1>3, <1>4, <1>5 DEF AimNext, AimEvent, PopsPolls, trigger_event,
     UnchangedByEvents, inject_remote_values, ctrl_peek_negative_hook, pops_aim_apply,
     ApplyBeforeFound, ApplyReleased, ApplyWrites, PopsStarts, Tick,
     pops_aim_find_pad_state, aimVars, pollVars, eventVars

\* Over every interleaving of the controller's events, POPS's polls and time,
\* the ages, the shot and the poll say what the gun has seen (pops_aim_set_raw,
\* pops_aim_filter_buttons, pops_aim_apply).
THEOREM AimInvariant == AimSpec => []AimInv
<1>1. AimInit => AimInv
  <2>1. ~is_no_light(<<0, 0>>)
    BY DEF is_no_light, NO_LIGHT
  <2> QED
    BY <2>1, HoldTimes DEF AimInit, AimInv, LightInv, ShotInv, PollInv
<1>2. AimInv /\ [AimNext]_aimVars => AimInv'
  BY LightKept, ShotKept, PollKept DEF AimInv
<1> QED
  BY <1>1, <1>2, PTL DEF AimSpec

\* What the game is given when a poll ends is right.
LEMMA PositionRight ==
  ASSUME LightInv, ShotInv, PollInv, GameSeesGun
  PROVE  FlickerHidden /\ OffScreenSeen
<1>1. poll = "raw" /\ s_aim_raw /\ s_aim_valid
  BY DEF GameSeesGun, PollInv
<1>2. FlickerHidden
  <2> SUFFICES ASSUME Position = NO_LIGHT, is_no_light(gun_xy)
               PROVE  dark_for >= GUN_HOLD \/ HoldsNoLight
    BY DEF FlickerHidden, CorrectedToNoLight
  <2>1. gun_xy = NO_LIGHT /\ Dark
    BY GunPlace
  <2>2. CASE shot_holding
    BY <2>1, <2>2, GunPlace DEF HoldsNoLight
  <2>3. CASE ~shot_holding
    <3>1. ~(s_lit_valid /\ no_light_age < GUN_HOLD)
      BY <2>1, <2>3, GunPlace, NoLightIsDark DEF LightInv
    <3> QED
      BY <2>1, <3>1, HoldTimes DEF LightInv
  <2> QED
    BY <2>2, <2>3
<1>3. OffScreenSeen
  <2> SUFFICES ASSUME Position # NO_LIGHT, ~shot_holding
               PROVE  dark_for < GUN_HOLD
    BY DEF OffScreenSeen
  <2>1. Position = correct_raw(gun_xy, Share(Display))
    BY <1>1 DEF Position
  <2>2. gun_xy # NO_LIGHT
    BY <2>1 DEF correct_raw
  <2>3. CASE Dark
    BY <2>2, <2>3, GunPlace DEF LightInv
  <2>4. CASE ~Dark
    BY <1>1, <2>4, HoldTimes DEF LightInv
  <2> QED
    BY <2>3, <2>4
<1> QED
  BY <1>2, <1>3

\* What a game sees of a real gun is what the comments on the holds promise,
\* although events arrive inside POPS's poll (gun_xy and pops_aim_filter_buttons,
\* against the events of main_thread).
THEOREM GunIsSeenRight == AimSpec => GunSeenRight
<1>1. AimInv /\ [AimNext]_aimVars =>
        (GameSeesGun => FlickerHidden /\ OffScreenSeen) /\ ShotExpires
  BY PositionRight, ShotKept DEF AimInv
<1>2. AimSpec => [][AimNext]_aimVars
  BY PTL DEF AimSpec
<1> QED
  BY <1>1, <1>2, AimInvariant, PTL DEF GunSeenRight

-----------------------------------------------------------------------------
(***************************************************************************)
(* The overlay (PopsOverlay)                                               *)
(***************************************************************************)

Slots == 0..(XH_RECORDS - 1)

IsRecord(r) == DOMAIN r = {"base", "layout", "drawn", "at", "inverted"}

Filled(i) == s_xh[i].base # NoFrame

\* The records are those of different frames, and are filled from the first.
RecordsInv ==
  /\ DOMAIN s_xh = Slots
  /\ s_xh_next \in Slots
  /\ \A i \in Slots : IsRecord(s_xh[i]) /\ s_xh[i].base \in Frames \cup {NoFrame}
  /\ \A i, j \in Slots : Filled(i) /\ s_xh[i].base = s_xh[j].base => i = j
  /\ \/ \A i \in Slots : Filled(i)
     \/ \A i \in Slots : Filled(i) <=> i < s_xh_next

\* What POPS shows is a frame, and every frame has its areas and its pixels.
PictureInv ==
  /\ shown \in Frames
  /\ inverted \in [Frames -> SUBSET Areas]
  /\ DOMAIN cross = Frames
  /\ step \in Frames \cup {"idle"}

\* A crosshair is on a frame only as the frame's record has it drawn, for the
\* present layout.
TrailInv ==
  \A f \in Frames : cross[f] # {} =>
    \E i \in Slots :
      /\ s_xh[i].base = f /\ s_xh[i].layout = layout /\ s_xh[i].drawn
      /\ \A pixel \in cross[f] : pixel[1] = s_xh[i].at

\* f's probes have been read since, or are about to be.
Probing(f) == f \in probed \/ step = f

\* A frame is flashed as a whole, with a record to tell and probes to tell
\* whether it was repainted since.
FlashInv ==
  /\ \A f \in Frames : Probing(f) =>
       \E i \in Slots : s_xh[i].base = f /\ s_xh[i].layout = layout
  /\ \A f \in Frames \ disturbed : inverted[f] # {} =>
       /\ inverted[f] = Areas /\ Probing(f)
       /\ \E i \in Slots : /\ s_xh[i].base = f /\ s_xh[i].layout = layout
                           /\ s_xh[i].inverted
  /\ \A f \in Frames \ disturbed, i \in Slots :
       s_xh[i].base = f /\ s_xh[i].inverted /\ Probing(f) => inverted[f] = Areas

OverlayInv == RecordsInv /\ PictureInv /\ TrailInv /\ FlashInv

-----------------------------------------------------------------------------
(***************************************************************************)
(* Records                                                                 *)
(***************************************************************************)

LEMMA NextSlot ==
  ASSUME NEW r \in Nat \ {0}, NEW n \in 0..(r - 1)
  PROVE  (n + 1) % r = IF n + 1 = r THEN 0 ELSE n + 1
<1>1. CASE n + 1 = r
  BY <1>1
<1>2. CASE n + 1 # r
  <2>1. n + 1 \in 0..(r - 1)
    BY <1>2
  <2> QED
    BY <1>2, <2>1
<1> QED
  BY <1>1, <1>2

LEMMA RecordIs ==
  ASSUME RecordsInv, NEW i \in Slots, s_xh[i].base # NoFrame
  PROVE  HasRecord(s_xh[i].base) /\ RecordOf(s_xh[i].base) = i
<1>1. \A j \in DOMAIN s_xh : s_xh[j].base = s_xh[i].base => j = i
  BY DEF RecordsInv, Filled
<1>2. i \in DOMAIN s_xh
  BY DEF RecordsInv
<1> QED
  BY <1>1, <1>2 DEF HasRecord, RecordOf

LEMMA OwnRecord ==
  ASSUME RecordsInv, NEW f, HasRecord(f)
  PROVE  RecordOf(f) \in Slots /\ s_xh[RecordOf(f)].base = f
BY DEF RecordsInv, HasRecord, RecordOf

\* There are records for all frames, so that one taken anew was no frame's.
LEMMA SlotFree ==
  ASSUME RecordsInv, shown \in Frames, ~HasRecord(shown)
  PROVE  s_xh[s_xh_next].base = NoFrame
<1>1. CASE \A i \in Slots : Filled(i)
  <2> DEFINE base == [i \in Slots |-> s_xh[i].base]
             Others == Frames \ {shown}
  <2>1. base \in [Slots -> Others]
    BY <1>1 DEF RecordsInv, Filled, HasRecord
  <2>2. IsFiniteSet(Others) /\ Cardinality(Others) = Cardinality(Frames) - 1
    BY FS_RemoveElement, OverlayAssumption
  <2>3. IsFiniteSet(Slots) /\ Cardinality(Slots) = XH_RECORDS
    <3>1. IF 0 > XH_RECORDS - 1 THEN FALSE ELSE XH_RECORDS - 1 - 0 + 1 = XH_RECORDS
      BY OverlayAssumption
    <3> QED
      BY <3>1, FS_Interval, OverlayAssumption DEF Slots
  <2>4. Cardinality(Frames) \in Nat
    BY FS_CardinalityType, OverlayAssumption
  <2>5. Cardinality(Others) < Cardinality(Slots)
    BY <2>2, <2>3, <2>4, OverlayAssumption
  <2> HIDE DEF base, Others
  <2>6. PICK i, j \in Slots : i # j /\ base[i] = base[j]
    BY <2>1, <2>2, <2>3, <2>5, FS_PigeonHole
  <2> QED
    BY <1>1, <2>6 DEF RecordsInv, Filled, base
<1>2. CASE \A i \in Slots : Filled(i) <=> i < s_xh_next
  BY <1>2 DEF RecordsInv, Filled, Slots
<1> QED
  BY <1>1, <1>2 DEF RecordsInv

\* The slot that overlay_step works on is the shown frame's, or no frame's.
LEMMA SlotOfShown ==
  ASSUME RecordsInv, shown \in Frames
  PROVE  /\ xh_slot \in Slots
         /\ s_xh[xh_slot].base \in {shown, NoFrame}
         /\ \A i \in Slots : s_xh[i].base = shown => i = xh_slot
         /\ HasRecord(shown) <=> s_xh[xh_slot].base = shown
<1>1. shown # NoFrame
  BY OverlayAssumption
<1>2. CASE HasRecord(shown)
  <2>1. xh_slot \in Slots /\ s_xh[xh_slot].base = shown
    BY <1>2, OwnRecord DEF xh_slot
  <2> QED
    BY <1>1, <1>2, <2>1 DEF RecordsInv, Filled
<1>3. CASE ~HasRecord(shown)
  BY <1>1, <1>3, SlotFree DEF xh_slot, RecordsInv, HasRecord
<1> QED
  BY <1>2, <1>3

\* xh_record_for is the shown frame's record if that is of the present layout,
\* and one with nothing drawn or inverted otherwise.
LEMMA RecordForShown ==
  ASSUME RecordsInv, shown \in Frames
  PROVE  /\ IsRecord(xh_record_for)
         /\ xh_record_for.base = shown /\ xh_record_for.layout = layout
         /\ s_xh[xh_slot].base = shown /\ s_xh[xh_slot].layout = layout =>
              xh_record_for = s_xh[xh_slot]
         /\ xh_record_for.drawn \/ xh_record_for.inverted =>
              s_xh[xh_slot].base = shown /\ s_xh[xh_slot].layout = layout
<1>1. /\ IsRecord(s_xh[xh_slot])
      /\ HasRecord(shown) <=> s_xh[xh_slot].base = shown
  BY SlotOfShown DEF RecordsInv
<1> DEFINE old == s_xh[xh_slot]
           new == [old EXCEPT !.base = shown, !.layout = layout,
                              !.drawn = FALSE, !.inverted = FALSE]
<1>2. /\ IsRecord(new) /\ new.base = shown /\ new.layout = layout
      /\ ~new.drawn /\ ~new.inverted
  BY <1>1 DEF IsRecord
<1>3. xh_record_for = IF old.base = shown /\ old.layout = layout THEN old ELSE new
  BY <1>1 DEF xh_record_for
<1>4. CASE old.base = shown /\ old.layout = layout
  BY <1>1, <1>3, <1>4
<1>5. CASE ~(old.base = shown /\ old.layout = layout)
  <2>1. xh_record_for = new
    BY <1>3, <1>5
  <2> HIDE DEF new
  <2> QED
    BY <1>2, <1>5, <2>1 DEF IsRecord
<1> QED
  BY <1>4, <1>5

\* What overlay_step makes of the records keeps their order.
LEMMA RecordsStay ==
  ASSUME RecordsInv, shown \in Frames, RecordTaken, DOMAIN s_xh' = Slots,
         s_xh'[xh_slot].base = shown,
         \A i \in Slots : IsRecord(s_xh'[i]),
         \A i \in Slots : i # xh_slot => s_xh'[i].base = s_xh[i].base
  PROVE  RecordsInv'
<1>1. xh_slot \in Slots /\ shown # NoFrame
  BY SlotOfShown, OverlayAssumption
<1>2. \A i \in Slots : i # xh_slot => s_xh[i].base # shown
  BY SlotOfShown
<1>3. /\ \A i \in Slots : s_xh'[i].base \in Frames \cup {NoFrame}
      /\ \A i, j \in Slots :
           s_xh'[i].base # NoFrame /\ s_xh'[i].base = s_xh'[j].base => i = j
  BY <1>1, <1>2 DEF RecordsInv, Filled
<1>4. CASE HasRecord(shown)
  <2>1. s_xh_next' = s_xh_next /\ s_xh[xh_slot].base = shown
    BY <1>4, SlotOfShown DEF RecordTaken
  <2>2. \A i \in Slots : Filled(i)' <=> Filled(i)
    BY <1>1, <2>1 DEF Filled
  <2> QED
    BY <1>3, <2>1, <2>2 DEF RecordsInv, Filled
<1>5. CASE ~HasRecord(shown)
  <2>1. xh_slot = s_xh_next /\ s_xh[xh_slot].base = NoFrame
    BY <1>5, SlotFree DEF xh_slot
  <2>2. s_xh_next' = IF s_xh_next + 1 = XH_RECORDS THEN 0 ELSE s_xh_next + 1
    BY <1>5, NextSlot, OverlayAssumption DEF RecordTaken, RecordsInv, Slots
  <2>3. \A i \in Slots : Filled(i) <=> i < s_xh_next
    BY <1>1, <2>1 DEF RecordsInv, Filled
  <2>4. \A i \in Slots : Filled(i)' <=> i < s_xh_next \/ i = s_xh_next
    BY <1>1, <2>1, <2>3 DEF Filled
  <2>5. s_xh_next \in Slots
    BY DEF RecordsInv
  <2>6. CASE s_xh_next + 1 = XH_RECORDS
    <3>1. s_xh_next' \in Slots /\ \A i \in Slots : Filled(i)'
      BY <2>2, <2>4, <2>5, <2>6, OverlayAssumption DEF Slots
    <3> QED
      BY <1>3, <3>1 DEF RecordsInv, Filled
  <2>7. CASE s_xh_next + 1 # XH_RECORDS
    <3>1. s_xh_next' \in Slots /\ \A i \in Slots : Filled(i)' <=> i < s_xh_next'
      BY <2>2, <2>4, <2>5, <2>7, OverlayAssumption DEF Slots
    <3> QED
      BY <1>3, <3>1 DEF RecordsInv, Filled
  <2> QED
    BY <2>6, <2>7
<1> QED
  BY <1>4, <1>5

-----------------------------------------------------------------------------
(***************************************************************************)
(* What overlay_step does                                                  *)
(***************************************************************************)

\* The shown frame's record becomes one of its own with a crosshair drawn at at,
\* or none; of the others only inverted may change.
RecordBecomes(drawn, at) ==
  /\ DOMAIN s_xh' = Slots
  /\ \A i \in Slots : IsRecord(s_xh'[i])
  /\ s_xh'[xh_slot].base = shown /\ s_xh'[xh_slot].layout = layout
  /\ s_xh'[xh_slot].drawn <=> drawn
  /\ s_xh'[xh_slot].at = at
  /\ \A i \in Slots : i # xh_slot =>
       /\ s_xh'[i].base = s_xh[i].base /\ s_xh'[i].layout = s_xh[i].layout
       /\ s_xh'[i].drawn = s_xh[i].drawn /\ s_xh'[i].at = s_xh[i].at

LEMMA CrosshairRecords ==
  ASSUME RecordsInv, shown \in Frames, CrosshairStep
  PROVE  LET r == xh_record_for
             erase == r.drawn /\ (~want \/ Centre # r.at \/ ~xh_intact(r))
             draw == want /\ (~r.drawn \/ erase)
         IN /\ RecordBecomes(draw \/ (r.drawn /\ ~erase),
                             IF draw THEN Centre ELSE r.at)
            /\ \A i \in Slots : ~s_xh'[i].inverted
<1> DEFINE r == xh_record_for
           erase == r.drawn /\ (~want \/ Centre # r.at \/ ~xh_intact(r))
           draw == want /\ (~r.drawn \/ erase)
           drawn == draw \/ (r.drawn /\ ~erase)
           restored == Restored(r)
<1>1. s_xh' = [restored EXCEPT ![xh_slot].drawn = drawn,
                               ![xh_slot].at = IF draw THEN Centre ELSE @]
  BY DEF CrosshairStep
<1>2. /\ xh_slot \in Slots /\ DOMAIN s_xh = Slots
      /\ IsRecord(r) /\ r.base = shown /\ r.layout = layout
      /\ \A i \in Slots : IsRecord(s_xh[i])
  BY SlotOfShown, RecordForShown DEF RecordsInv
<1>3. /\ DOMAIN restored = Slots
      /\ \A i \in Slots : IsRecord(restored[i]) /\ ~restored[i].inverted
      /\ restored[xh_slot].base = shown /\ restored[xh_slot].layout = layout
      /\ restored[xh_slot].at = r.at
      /\ \A i \in Slots : i # xh_slot =>
           /\ restored[i].base = s_xh[i].base /\ restored[i].layout = s_xh[i].layout
           /\ restored[i].drawn = s_xh[i].drawn /\ restored[i].at = s_xh[i].at
  <2> HIDE DEF r
  <2> QED
    BY <1>2 DEF Restored, IsRecord
<1> HIDE DEF r, restored, drawn, draw, erase
<1>4. /\ DOMAIN s_xh' = Slots
      /\ \A i \in Slots : IsRecord(s_xh'[i]) /\ ~s_xh'[i].inverted
      /\ s_xh'[xh_slot].base = shown /\ s_xh'[xh_slot].layout = layout
      /\ s_xh'[xh_slot].drawn <=> drawn
      /\ s_xh'[xh_slot].at = IF draw THEN Centre ELSE r.at
      /\ \A i \in Slots : i # xh_slot => s_xh'[i] = restored[i]
  BY <1>1, <1>2, <1>3 DEF IsRecord
<1>5. RecordBecomes(drawn, IF draw THEN Centre ELSE r.at)
  BY <1>3, <1>4 DEF RecordBecomes
<1> QED
  BY <1>4, <1>5 DEF r, drawn, draw, erase

LEMMA FlashRecords ==
  ASSUME RecordsInv, shown \in Frames, FlashStep
  PROVE  /\ RecordBecomes(FALSE, xh_record_for.at)
         /\ s_xh'[xh_slot].inverted
         /\ \A i \in Slots : i # xh_slot => s_xh'[i] = s_xh[i]
<1> DEFINE r == xh_record_for
<1>1. /\ xh_slot \in Slots /\ DOMAIN s_xh = Slots
      /\ IsRecord(r) /\ r.base = shown /\ r.layout = layout
      /\ \A i \in Slots : IsRecord(s_xh[i])
  BY SlotOfShown, RecordForShown DEF RecordsInv
<1>2. \/ s_xh' = [s_xh EXCEPT ![xh_slot] =
                    [r EXCEPT !.inverted = TRUE, !.drawn = FALSE]]
      \/ r.inverted /\ s_xh' = [s_xh EXCEPT ![xh_slot] = [r EXCEPT !.drawn = FALSE]]
  BY DEF FlashStep
<1> HIDE DEF r
<1>3. /\ DOMAIN s_xh' = Slots
      /\ \A i \in Slots : i # xh_slot => s_xh'[i] = s_xh[i]
  BY <1>1, <1>2
<1>4. /\ IsRecord(s_xh'[xh_slot])
      /\ s_xh'[xh_slot].base = shown /\ s_xh'[xh_slot].layout = layout
      /\ ~s_xh'[xh_slot].drawn
      /\ s_xh'[xh_slot].at = r.at /\ s_xh'[xh_slot].inverted
  BY <1>1, <1>2 DEF IsRecord
<1>5. \A i \in Slots : IsRecord(s_xh'[i])
  BY <1>1, <1>3, <1>4
<1> QED
  BY <1>3, <1>4, <1>5 DEF RecordBecomes, r

-----------------------------------------------------------------------------
(***************************************************************************)
(* Each part of the invariant is kept                                      *)
(***************************************************************************)

LEMMA RecordsKept ==
  ASSUME RecordsInv, shown \in Frames, [OverlayNext]_overlayVars
  PROVE  RecordsInv'
<1>1. CASE CrosshairStep
  BY <1>1, CrosshairRecords, RecordsStay DEF RecordBecomes, CrosshairStep
<1>2. CASE FlashStep
  BY <1>2, FlashRecords, RecordsStay DEF RecordBecomes, FlashStep
<1>3. CASE UNCHANGED <<s_xh, s_xh_next>>
  BY <1>3 DEF RecordsInv, Filled
<1> QED
  BY <1>1, <1>2, <1>3 DEF OverlayNext, Pops, overlay_step, overlayVars, recordVars,
     Repaint, Flip, SetDisplay, MoveAim, WantFlash, FlashProbe

LEMMA PictureKept ==
  ASSUME PictureInv, [OverlayNext]_overlayVars
  PROVE  PictureInv'
<1>1. ASSUME NEW f \in Frames, Repaint(f)
      PROVE  PictureInv'
  BY <1>1 DEF PictureInv, Repaint
<1>2. ASSUME NEW f \in Frames, Flip(f)
      PROVE  PictureInv'
  BY <1>2 DEF PictureInv, Flip, recordVars
<1>3. ASSUME NEW d \in Displays, SetDisplay(d)
      PROVE  PictureInv'
  BY <1>3 DEF PictureInv, SetDisplay
<1>4. CASE FlashStep
  BY <1>4 DEF PictureInv, FlashStep, Flipped
<1>5. CASE FlashProbe
  BY <1>5 DEF PictureInv, FlashProbe, popsVars
<1>6. CASE CrosshairStep
  <2>1. inverted' \in [Frames -> SUBSET Areas]
    BY <1>6 DEF PictureInv, CrosshairStep, flash_restore_all, Flipped
  <2>2. DOMAIN cross' = Frames
    BY <1>6 DEF PictureInv, CrosshairStep
  <2> QED
    BY <1>6, <2>1, <2>2 DEF PictureInv, CrosshairStep
<1>7. CASE UNCHANGED <<shown, inverted, cross, step>>
  BY <1>7 DEF PictureInv
<1> QED
  BY <1>1, <1>2, <1>3, <1>4, <1>5, <1>6, <1>7 DEF OverlayNext, Pops, overlay_step,
     overlayVars, popsVars, recordVars, MoveAim, WantFlash

LEMMA PixelsAreAt ==
  ASSUME NEW c, NEW pixel \in Pixels(c)
  PROVE  pixel[1] = c
BY DEF Pixels

\* What is on the shown frame is what xh_record_for has drawn.
LEMMA ShownTrail ==
  ASSUME RecordsInv, TrailInv, shown \in Frames, cross[shown] # {}
  PROVE  /\ xh_record_for.drawn
         /\ \A pixel \in cross[shown] : pixel[1] = xh_record_for.at
BY SlotOfShown, RecordForShown DEF TrailInv

\* The trails of the other frames are as they were.
LEMMA OthersTrail ==
  ASSUME RecordsInv, TrailInv, shown \in Frames, UNCHANGED <<display, shown>>,
         NEW drawn, NEW at, RecordBecomes(drawn, at),
         NEW f \in Frames, f # shown, cross'[f] = cross[f], cross'[f] # {}
  PROVE  \E i \in Slots :
           /\ s_xh'[i].base = f /\ s_xh'[i].layout = layout' /\ s_xh'[i].drawn
           /\ \A pixel \in cross'[f] : pixel[1] = s_xh'[i].at
<1>1. PICK i \in Slots :
        /\ s_xh[i].base = f /\ s_xh[i].layout = layout /\ s_xh[i].drawn
        /\ \A pixel \in cross[f] : pixel[1] = s_xh[i].at
  BY DEF TrailInv
<1>2. i # xh_slot
  BY <1>1, SlotOfShown, OverlayAssumption
<1> QED
  BY <1>1, <1>2 DEF RecordBecomes, layout

LEMMA TrailKept ==
  ASSUME RecordsInv, PictureInv, TrailInv, [OverlayNext]_overlayVars
  PROVE  TrailInv'
<1>1. ASSUME NEW f \in Frames, Repaint(f)
      PROVE  TrailInv'
  <2>1. /\ \A g \in Frames : cross'[g] \subseteq cross[g]
        /\ UNCHANGED <<s_xh, layout>>
    BY <1>1 DEF PictureInv, Repaint, layout
  <2> QED
    BY <2>1 DEF TrailInv
<1>2. ASSUME NEW d \in Displays, SetDisplay(d)
      PROVE  TrailInv'
  BY <1>2 DEF TrailInv, SetDisplay
<1>3. CASE FlashStep
  <2>1. RecordBecomes(FALSE, xh_record_for.at) /\ UNCHANGED <<display, shown>>
    BY <1>3, FlashRecords DEF PictureInv, FlashStep
  <2>2. \A f \in Frames : f # shown => cross'[f] = cross[f]
    BY <1>3 DEF PictureInv, FlashStep
  <2>3. cross'[shown] = {}
    <3>1. CASE xh_record_for.drawn
      <4>1. cross'[shown] = {p \in cross[shown] : p[1] # xh_record_for.at}
        BY <1>3, <3>1 DEF PictureInv, FlashStep, xh_erase
      <4> QED
        BY <4>1, ShownTrail DEF PictureInv
    <3>2. CASE ~xh_record_for.drawn
      BY <1>3, <3>2, ShownTrail DEF PictureInv, FlashStep
    <3> QED
      BY <3>1, <3>2
  <2> QED
    BY <2>1, <2>2, <2>3, OthersTrail DEF PictureInv, TrailInv
<1>4. CASE CrosshairStep
  <2> DEFINE r == xh_record_for
             erase == r.drawn /\ (~want \/ Centre # r.at \/ ~xh_intact(r))
             draw == want /\ (~r.drawn \/ erase)
             drawn == draw \/ (r.drawn /\ ~erase)
             at == IF draw THEN Centre ELSE r.at
             kept == IF erase THEN {p \in cross[shown] : p[1] # r.at} ELSE cross[shown]
             added == IF draw THEN Pixels(Centre) ELSE {}
  <2>1. RecordBecomes(drawn, at)
    BY <1>4, CrosshairRecords DEF PictureInv
  <2>2. /\ UNCHANGED <<display, shown>>
        /\ \A f \in Frames : f # shown => cross'[f] = cross[f]
        /\ cross'[shown] = kept \cup added
    BY <1>4 DEF PictureInv, CrosshairStep, xh_erase
  <2>3. cross[shown] # {} =>
          r.drawn /\ \A pixel \in cross[shown] : pixel[1] = r.at
    BY ShownTrail DEF PictureInv
  <2>4. /\ xh_slot \in Slots
        /\ s_xh'[xh_slot].base = shown /\ s_xh'[xh_slot].layout = layout
        /\ s_xh'[xh_slot].drawn <=> drawn
        /\ s_xh'[xh_slot].at = at
    BY <2>1, SlotOfShown DEF PictureInv, RecordBecomes
  <2> HIDE DEF r
  <2>5. kept # {} => r.drawn /\ ~erase /\ \A pixel \in kept : pixel[1] = r.at
    BY <2>3
  <2>6. added # {} => draw /\ \A pixel \in added : pixel[1] = Centre
    BY PixelsAreAt
  <2>7. cross'[shown] # {} => drawn /\ \A pixel \in cross'[shown] : pixel[1] = at
    <3> HIDE DEF kept, added
    <3> QED
      BY <2>2, <2>5, <2>6
  <2>8. cross'[shown] # {} =>
          \E i \in Slots :
            /\ s_xh'[i].base = shown /\ s_xh'[i].layout = layout' /\ s_xh'[i].drawn
            /\ \A pixel \in cross'[shown] : pixel[1] = s_xh'[i].at
    <3> HIDE DEF drawn, at
    <3>1. layout' = layout
      BY <2>2 DEF layout
    <3> QED
      BY <2>4, <2>7, <3>1
  <2> HIDE DEF drawn, at
  <2> QED
    BY <2>1, <2>2, <2>8, OthersTrail DEF PictureInv, TrailInv
<1>5. CASE UNCHANGED <<cross, s_xh, display>>
  BY <1>5 DEF TrailInv, layout
<1> QED
  BY <1>1, <1>2, <1>3, <1>4, <1>5 DEF OverlayNext, Pops, overlay_step, overlayVars,
     popsVars, recordVars, Flip, MoveAim, WantFlash, FlashProbe

\* Of the flash the shown frame's record tells as xh_record_for does.
LEMMA ShownFlash ==
  ASSUME RecordsInv, FlashInv, shown \in Frames
  PROVE  /\ shown \notin disturbed /\ inverted[shown] # {} =>
              /\ inverted[shown] = Areas /\ Probing(shown)
              /\ xh_record_for.inverted
         /\ shown \notin disturbed /\ xh_record_for.inverted /\ Probing(shown) =>
              inverted[shown] = Areas
<1>1. /\ xh_slot \in Slots
      /\ \A i \in Slots : s_xh[i].base = shown => i = xh_slot
  BY SlotOfShown
<1> QED
  BY <1>1, RecordForShown DEF FlashInv

\* The records of the other frames that are probed stay, and so does theirs.
LEMMA ProbedStay ==
  ASSUME RecordsInv, shown \in Frames, UNCHANGED <<display, shown>>,
         NEW drawn, NEW at, RecordBecomes(drawn, at),
         NEW f \in Frames,
         f # shown => \E i \in Slots : s_xh[i].base = f /\ s_xh[i].layout = layout
  PROVE  \E i \in Slots : s_xh'[i].base = f /\ s_xh'[i].layout = layout'
<1>1. layout' = layout
  BY DEF layout
<1>2. CASE f = shown
  BY <1>1, <1>2, SlotOfShown DEF RecordBecomes
<1>3. CASE f # shown
  <2>1. PICK i \in Slots : s_xh[i].base = f /\ s_xh[i].layout = layout
    BY <1>3
  <2>2. i # xh_slot
    BY <1>3, <2>1, SlotOfShown, OverlayAssumption
  <2> QED
    BY <1>1, <2>1, <2>2 DEF RecordBecomes
<1> QED
  BY <1>2, <1>3

LEMMA FlashStepKeeps ==
  ASSUME RecordsInv, PictureInv, FlashInv, FlashStep
  PROVE  FlashInv'
<1> USE DEF PictureInv
<1>1. /\ RecordBecomes(FALSE, xh_record_for.at) /\ s_xh'[xh_slot].inverted
      /\ \A i \in Slots : i # xh_slot => s_xh'[i] = s_xh[i]
  BY FlashRecords
<1>2. /\ UNCHANGED <<display, shown, probed, disturbed, layout>> /\ step = "idle"
      /\ \A f \in Frames : f # shown => inverted'[f] = inverted[f]
      /\ step' \in {"idle", shown}
  BY DEF FlashStep, layout
<1>3. /\ xh_slot \in Slots /\ shown # NoFrame /\ shown # "idle"
      /\ s_xh[xh_slot].base \in {shown, NoFrame}
      /\ \A f \in Frames : f # NoFrame /\ f # "idle"
  BY SlotOfShown, OverlayAssumption
<1>4. \A f \in Frames : Probing(f) => Probing(f)'
  BY <1>2, <1>3 DEF Probing
<1>5. \A f \in Frames : f # shown => (Probing(f)' <=> Probing(f))
  BY <1>2, <1>3 DEF Probing
<1>6. shown \notin disturbed => inverted'[shown] = Areas /\ Probing(shown)'
  <2>1. CASE ~xh_record_for.inverted \/ ~flash_intact(xh_record_for)
    <3>1. xh_record_for.base = shown
      BY RecordForShown
    <3>2. inverted'[shown] = Areas \ inverted[shown] /\ step' = shown
      BY <2>1 DEF FlashStep, Flipped
    <3>3. shown \notin disturbed => inverted[shown] = {}
      BY <1>2, <1>3, <2>1, <3>1, ShownFlash DEF flash_intact, Probing
    <3>4. Probing(shown)'
      BY <1>2, <3>2 DEF Probing
    <3>5. Areas \ {} = Areas
      OBVIOUS
    <3> QED
      BY <3>2, <3>3, <3>4, <3>5
  <2>2. CASE xh_record_for.inverted /\ flash_intact(xh_record_for)
    <3>1. xh_record_for.base = shown
      BY RecordForShown
    <3>2. shown \in probed /\ inverted' = inverted
      BY <2>2, <3>1 DEF FlashStep, flash_intact
    <3> QED
      BY <1>2, <2>2, <3>2, ShownFlash DEF Probing
  <2> QED
    BY <2>1, <2>2
<1>7. \A f \in Frames : Probing(f)' =>
        \E i \in Slots : s_xh'[i].base = f /\ s_xh'[i].layout = layout'
  BY <1>1, <1>2, <1>5, ProbedStay DEF FlashInv
<1>8. \A f \in Frames \ disturbed : inverted'[f] # {} =>
        /\ inverted'[f] = Areas /\ Probing(f)'
        /\ \E i \in Slots : /\ s_xh'[i].base = f /\ s_xh'[i].layout = layout'
                            /\ s_xh'[i].inverted
  <2> SUFFICES ASSUME NEW f \in Frames \ disturbed, inverted'[f] # {}
               PROVE  /\ inverted'[f] = Areas /\ Probing(f)'
                      /\ \E i \in Slots : /\ s_xh'[i].base = f
                                          /\ s_xh'[i].layout = layout'
                                          /\ s_xh'[i].inverted
    OBVIOUS
  <2>1. CASE f = shown
    BY <1>1, <1>2, <1>3, <1>6, <2>1 DEF RecordBecomes
  <2>2. CASE f # shown
    <3>1. PICK i \in Slots : /\ s_xh[i].base = f /\ s_xh[i].layout = layout
                             /\ s_xh[i].inverted
      BY <1>2, <2>2 DEF FlashInv
    <3>2. i # xh_slot
      BY <1>3, <2>2, <3>1
    <3> QED
      BY <1>1, <1>2, <1>4, <2>2, <3>1, <3>2 DEF FlashInv
  <2> QED
    BY <2>1, <2>2
<1>9. \A f \in Frames \ disturbed, i \in Slots :
        s_xh'[i].base = f /\ s_xh'[i].inverted /\ Probing(f)' => inverted'[f] = Areas
  <2> SUFFICES ASSUME NEW f \in Frames \ disturbed, NEW i \in Slots,
                      s_xh'[i].base = f, s_xh'[i].inverted, Probing(f)'
               PROVE  inverted'[f] = Areas
    OBVIOUS
  <2>1. CASE i = xh_slot
    BY <1>1, <1>6, <2>1 DEF RecordBecomes
  <2>2. CASE i # xh_slot
    <3>1. f # shown
      BY <1>1, <2>2, SlotOfShown
    <3> QED
      BY <1>1, <1>2, <1>5, <2>2, <3>1 DEF FlashInv
  <2> QED
    BY <2>1, <2>2
<1> QED
  BY <1>2, <1>7, <1>8, <1>9 DEF FlashInv

LEMMA CrosshairStepKeeps ==
  ASSUME RecordsInv, PictureInv, FlashInv, CrosshairStep
  PROVE  FlashInv'
<1> USE DEF PictureInv
<1>1. /\ \E drawn, at : RecordBecomes(drawn, at)
      /\ \A i \in Slots : ~s_xh'[i].inverted
  BY CrosshairRecords
<1>2. /\ UNCHANGED <<display, shown, probed, step, layout>> /\ step = "idle"
      /\ disturbed' = {f \in disturbed : inverted'[f] # {}}
      /\ \A f \in Frames : inverted'[f] =
           IF f \in ToRestore THEN Areas \ inverted[f] ELSE inverted[f]
  BY DEF CrosshairStep, flash_restore_all, Flipped, layout
<1>3. \A f \in Frames : f # NoFrame /\ f # "idle"
  BY OverlayAssumption
<1>4. \A f \in Frames : Probing(f)' <=> Probing(f)
  BY <1>2 DEF Probing
<1>5. \A f \in Frames \ disturbed' : inverted'[f] = {}
  <2> SUFFICES ASSUME NEW f \in Frames \ disturbed
               PROVE  inverted'[f] = {}
    BY <1>2
  <2>1. CASE inverted[f] # {}
    <3>1. /\ inverted[f] = Areas /\ f \in probed
          /\ \E i \in Slots : s_xh[i].base = f /\ s_xh[i].inverted
      BY <1>2, <1>3, <2>1 DEF FlashInv, Probing
    <3>2. HasRecord(f) /\ s_xh[RecordOf(f)].base = f /\ s_xh[RecordOf(f)].inverted
      BY <1>3, <3>1, RecordIs
    <3>3. f \in ToRestore
      BY <3>1, <3>2 DEF ToRestore, flash_intact
    <3> QED
      BY <1>2, <3>1, <3>3
  <2>2. CASE inverted[f] = {}
    <3>1. f \notin ToRestore
      <4> SUFFICES ASSUME f \in ToRestore
                   PROVE  FALSE
        OBVIOUS
      <4>1. HasRecord(f) /\ s_xh[RecordOf(f)].inverted /\ flash_intact(s_xh[RecordOf(f)])
        BY DEF ToRestore
      <4>2. RecordOf(f) \in Slots /\ s_xh[RecordOf(f)].base = f
        BY <4>1, OwnRecord
      <4>3. Probing(f)
        BY <4>1, <4>2 DEF flash_intact, Probing
      <4> QED
        BY <2>2, <4>1, <4>2, <4>3 DEF FlashInv, Areas
    <3> QED
      BY <1>2, <2>2, <3>1
  <2> QED
    BY <2>1, <2>2
<1>6. \A f \in Frames : Probing(f)' =>
        \E i \in Slots : s_xh'[i].base = f /\ s_xh'[i].layout = layout'
  BY <1>1, <1>2, <1>4, ProbedStay DEF FlashInv
<1> QED
  BY <1>1, <1>5, <1>6 DEF FlashInv

LEMMA FlashKept ==
  ASSUME RecordsInv, PictureInv, FlashInv, [OverlayNext]_overlayVars
  PROVE  FlashInv'
<1>1. ASSUME NEW g \in Frames, Repaint(g)
      PROVE  FlashInv'
  <2>1. /\ UNCHANGED <<s_xh, step, layout>>
        /\ probed' \subseteq probed /\ disturbed \subseteq disturbed'
        /\ \A f \in Frames : f # g => /\ inverted'[f] = inverted[f]
                                      /\ Probing(f)' <=> Probing(f)
    BY <1>1 DEF PictureInv, Repaint, layout, Probing
  <2>2. \A f \in Frames : Probing(f)' => Probing(f)
    BY <2>1 DEF Probing
  <2>3. g \notin disturbed' => inverted[g] = {} /\ inverted'[g] = {} /\ g \notin disturbed
    BY <1>1 DEF PictureInv, Repaint
  <2>4. g \notin disturbed' =>
          \A i \in Slots : ~(s_xh[i].base = g /\ s_xh[i].inverted /\ Probing(g))
    BY <2>3 DEF FlashInv, Areas
  <2> QED
    BY <2>1, <2>2, <2>3, <2>4 DEF FlashInv
<1>2. ASSUME NEW d \in Displays, SetDisplay(d)
      PROVE  FlashInv'
  <2>1. /\ \A f \in Frames : inverted'[f] = {} /\ ~Probing(f)'
    BY <1>2, OverlayAssumption DEF SetDisplay, Probing
  <2> QED
    BY <2>1 DEF FlashInv
<1>3. CASE FlashProbe
  <2>1. /\ UNCHANGED <<s_xh, inverted, disturbed, layout>>
        /\ \A f \in Frames : Probing(f)' <=> Probing(f)
    BY <1>3, OverlayAssumption DEF FlashProbe, popsVars, layout, Probing
  <2> QED
    BY <2>1 DEF FlashInv
<1>4. CASE UNCHANGED <<s_xh, inverted, disturbed, display, probed, step>>
  BY <1>4 DEF FlashInv, layout, Probing
<1> QED
  BY <1>1, <1>2, <1>3, <1>4, FlashStepKeeps, CrosshairStepKeeps DEF OverlayNext, Pops,
     overlay_step, overlayVars, popsVars, recordVars, Flip, MoveAim, WantFlash

LEMMA OverlayStarts ==
  ASSUME OverlayInit
  PROVE  OverlayInv
<1>1. 0 \in Slots /\ DOMAIN s_xh = Slots /\ \A i \in Slots : s_xh[i] = NoRecord
  BY OverlayAssumption DEF OverlayInit, Slots
<1>2. RecordsInv
  BY <1>1 DEF RecordsInv, OverlayInit, NoRecord, IsRecord, Filled, Slots
<1>3. PictureInv /\ TrailInv
  BY DEF OverlayInit, PictureInv, TrailInv
<1>4. FlashInv
  BY OverlayAssumption DEF OverlayInit, FlashInv, Probing
<1> QED
  BY <1>2, <1>3, <1>4 DEF OverlayInv

\* However the aim moves and POPS repaints and shows its frames, a frame's
\* record, what is painted on it and the probes taken of it agree (overlay_thread,
\* xh_record_for, flash_invert and flash_restore_all).
THEOREM OverlayInvariant == OverlaySpec => []OverlayInv
<1>1. OverlayInit => OverlayInv
  BY OverlayStarts
<1>2. OverlayInv /\ [OverlayNext]_overlayVars => OverlayInv'
  BY RecordsKept, PictureKept, TrailKept, FlashKept DEF OverlayInv, PictureInv
<1> QED
  BY <1>1, <1>2, PTL DEF OverlaySpec

\* Every crosshair pixel on a frame is that of the crosshair the frame's record
\* holds as drawn, so that it can be erased (overlay_step).
THEOREM CrosshairLeavesNoTrail == OverlaySpec => []NoTrail
<1>1. OverlayInv => NoTrail
  <2> SUFFICES ASSUME OverlayInv, NEW f \in Frames, NEW pixel \in cross[f]
               PROVE  /\ HasRecord(f) /\ s_xh[RecordOf(f)].drawn
                      /\ pixel[1] = s_xh[RecordOf(f)].at
    BY DEF NoTrail
  <2>1. PICK i \in Slots : /\ s_xh[i].base = f /\ s_xh[i].drawn
                           /\ \A p \in cross[f] : p[1] = s_xh[i].at
    BY DEF OverlayInv, TrailInv
  <2>2. HasRecord(f) /\ RecordOf(f) = i
    BY <2>1, RecordIs, OverlayAssumption DEF OverlayInv
  <2> QED
    BY <2>1, <2>2
<1> QED
  BY <1>1, OverlayInvariant, PTL

\* A frame that POPS has not repainted during the flash is inverted as a whole
\* or not at all, and its record tells (flash_invert, flash_intact and
\* flash_restore_all).
THEOREM FlashIsAccounted == OverlaySpec => []FlashAccounted
<1>1. OverlayInv => FlashAccounted
  <2> SUFFICES ASSUME OverlayInv, NEW f \in Frames \ disturbed
               PROVE  /\ inverted[f] # {} => HasRecord(f) /\ s_xh[RecordOf(f)].inverted
                      /\ HasRecord(f) /\ s_xh[RecordOf(f)].inverted /\ f \in probed =>
                           inverted[f] = Areas
    BY DEF FlashAccounted
  <2>1. ASSUME inverted[f] # {}
        PROVE  HasRecord(f) /\ s_xh[RecordOf(f)].inverted
    <3>1. PICK i \in Slots : s_xh[i].base = f /\ s_xh[i].inverted
      BY <2>1 DEF OverlayInv, FlashInv
    <3>2. HasRecord(f) /\ RecordOf(f) = i
      BY <3>1, RecordIs, OverlayAssumption DEF OverlayInv
    <3> QED
      BY <3>1, <3>2
  <2>2. ASSUME HasRecord(f), s_xh[RecordOf(f)].inverted, f \in probed
        PROVE  inverted[f] = Areas
    <3>1. RecordOf(f) \in Slots /\ s_xh[RecordOf(f)].base = f
      BY <2>2, OwnRecord DEF OverlayInv
    <3> QED
      BY <2>2, <3>1 DEF OverlayInv, FlashInv, Probing
  <2> QED
    BY <2>1, <2>2
<1> QED
  BY <1>1, OverlayInvariant, PTL

-----------------------------------------------------------------------------
(***************************************************************************)
(* Where the crosshair is                                                  *)
(***************************************************************************)

\* Where the picture is along an axis of a display of n pixels: from x on, r
\* of them, the share s of the display.
Across(n, x, r, s) ==
  \/ n = 480 /\ \/ x = 80 /\ r = 320 /\ s = 43690
                \/ x = 60 /\ r = 360 /\ s = 49152
                \/ x = 0 /\ r = 480 /\ s = 65536
  \/ n = 672 /\ \/ x = 16 /\ r = 640 /\ s = 62415
                \/ x = 0 /\ r = 672 /\ s = 65536
  \/ n = 720 /\ \/ x = 40 /\ r = 640 /\ s = 58254
                \/ x = 0 /\ r = 720 /\ s = 65536
Down(n, y, r, s) ==
  \/ n = 272 /\ \/ y = 16 /\ r = 240 /\ s = 57825
                \/ y = 1 /\ r = 270 /\ s = 65054
                \/ y = -44 /\ r = 360 /\ s = 86738
                \/ y = 0 /\ r = 272 /\ s = 65536
  \/ n \in {240, 480} /\ y = 0 /\ r = n /\ s = 65536

\* The pictures picture_rect can return, on every display.
LEMMA PictureOf ==
  ASSUME NEW d \in EveryDisplay
  PROVE  /\ Across(d.w, picture_rect(d).x, picture_rect(d).w, Share(d)[1])
         /\ Down(d.h, picture_rect(d).y, picture_rect(d).h, Share(d)[2])
<1>1. CASE d.w = 480 /\ d.h = 272
  <2>1. d.mode \in 0..5
    BY DEF EveryDisplay
  <2>2. picture_rect(d) = k_lcd_rect[d.mode]
    BY <1>1 DEF picture_rect
  <2>3. k_lcd_rect[d.mode] =
     CASE d.mode \in {0, 4, 5} -> [x |-> 80, y |-> 16, w |-> 320, h |-> 240]
       [] d.mode = 1 -> [x |-> 60, y |-> 1, w |-> 360, h |-> 270]
       [] d.mode = 2 -> [x |-> 0, y |-> -44, w |-> 480, h |-> 360]
       [] d.mode = 3 -> [x |-> 0, y |-> 0, w |-> 480, h |-> 272]
    BY <2>1 DEF k_lcd_rect
  <2>4. CASE d.mode \in {0, 4, 5}
    BY <1>1, <2>2, <2>3, <2>4 DEF Share, Across, Down
  <2>5. CASE d.mode = 1
    BY <1>1, <2>2, <2>3, <2>5 DEF Share, Across, Down
  <2>6. CASE d.mode = 2
    BY <1>1, <2>2, <2>3, <2>6 DEF Share, Across, Down
  <2>7. CASE d.mode = 3
    BY <1>1, <2>2, <2>3, <2>7 DEF Share, Across, Down
  <2> QED
    BY <2>1, <2>4, <2>5, <2>6, <2>7
<1>2. CASE d.w \in {672, 720} /\ d.h \in {240, 480}
  <2>1. picture_rect(d) = tv_rect(d)
    BY <1>2 DEF picture_rect
  <2>2. /\ d.w \div 320 = 2 /\ d.h \div 240 = IF d.h = 240 THEN 1 ELSE 2
        /\ (d.w * 65536) \div d.w = 65536 /\ (d.h * 65536) \div d.h = 65536
    BY <1>2
  <2>3. tv_rect(d) = [x |-> IF d.tv_4_3 THEN 0 ELSE Quotient(d.w - 640, 2),
                      y |-> Quotient(0, 2),
                      w |-> IF d.tv_4_3 THEN d.w ELSE 640, h |-> d.h]
    BY <1>2, <2>2 DEF tv_rect, Most
  <2>4. Quotient(0, 2) = 0 /\ Quotient(d.w - 640, 2) = IF d.w = 672 THEN 16 ELSE 40
    BY <1>2 DEF Quotient
  <2>5. d.tv_4_3 \in BOOLEAN
    BY DEF EveryDisplay
  <2> QED
    BY <1>2, <2>1, <2>2, <2>3, <2>4, <2>5 DEF Share, Across, Down
<1> QED
  BY <1>1, <1>2 DEF EveryDisplay

\* What is known of a quotient.
LEMMA DivIs ==
  ASSUME NEW n \in Int, NEW d \in Nat, d > 0
  PROVE n \div d \in Int /\ d * (n \div d) <= n /\ n < d * (n \div d) + d
OBVIOUS

\* C's quotient is off by less than one, on either side of zero.
LEMMA QuotientIs ==
  ASSUME NEW n \in Int, NEW d \in Nat, d > 0
  PROVE  /\ Quotient(n, d) \in Int
         /\ n - d < d * Quotient(n, d) /\ d * Quotient(n, d) < n + d
<1>1. CASE n < 0
  <2>1. PICK q \in Int : q = (-n) \div d /\ d * q <= -n /\ -n < d * q + d
    BY DivIs
  <2>2. Quotient(n, d) = -q /\ d * (-q) = -(d * q)
    BY <1>1, <2>1 DEF Quotient
  <2> QED
    BY <2>1, <2>2
<1>2. CASE ~(n < 0)
  BY <1>2, DivIs DEF Quotient
<1> QED
  BY <1>1, <1>2

Clamped(v, lo, hi) == Least(Most(v, lo), hi)

\* What unscale_axis takes of a stretched reading: the centre and what remains of
\* the distance to it, divided by the share to within one unit.
StretchedBy(q, v, lo, hi, c, s) ==
  /\ (v - c) * 65536 - s < s * q /\ s * q < (v - c) * 65536 + s
  /\ s = 65536 => q = v - c
  /\ Clamped(stretch_axis(v, lo, hi, s), lo, hi) = Clamped(c + q, lo, hi)

Stretched(v, lo, hi, c, s) == \E q \in Int : StretchedBy(q, v, lo, hi, c, s)

\* stretch_axis takes so much, whatever the reading.
LEMMA StretchIs ==
  ASSUME NEW v \in Nat, v <= 2047, NEW lo \in Nat, NEW hi \in Nat, lo <= hi, hi <= 65535,
         NEW c \in Int, 2 * c = lo + hi, NEW s \in Nat, s > 0
  PROVE  Stretched(v, lo, hi, c, s)
<1>0. (lo + hi) \div 2 = c
  OBVIOUS
<1>1. CASE s = 65536
  <2>1. stretch_axis(v, lo, hi, s) = c + (v - c)
    BY <1>0, <1>1 DEF stretch_axis
  <2>2. v - c \in Int /\ StretchedBy(v - c, v, lo, hi, c, s)
    BY <1>1, <2>1 DEF StretchedBy
  <2> QED
    BY <2>2 DEF Stretched
<1>2. CASE s # 65536
  <2>1. PICK n \in Int : n = (v - c) * 65536
    OBVIOUS
  <2>2. PICK q \in Int : q = Quotient(n, s) /\ n - s < s * q /\ s * q < n + s
    <3>1. Quotient(n, s) \in Int
      BY QuotientIs
    <3>2. n - s < s * Quotient(n, s) /\ s * Quotient(n, s) < n + s
      BY QuotientIs
    <3> HIDE DEF Quotient
    <3> QED
      BY <3>1, <3>2
  <2>3. stretch_axis(v, lo, hi, s) = Most(0, Least(c + q, 65535))
    <3>1. Least(v, 2047) = v
      BY DEF Least
    <3>2. ~(s \in {0, 65536})
      BY <1>2
    <3>3. stretch_axis(v, lo, hi, s) = Most(0, Least(c + Quotient((v - c) * 65536, s), 65535))
      BY <1>0, <3>1, <3>2 DEF stretch_axis
    <3> QED
      BY <2>1, <2>2, <3>3
  <2>4. Clamped(Most(0, Least(c + q, 65535)), lo, hi) = Clamped(c + q, lo, hi)
    BY DEF Clamped, Most, Least
  <2>5. StretchedBy(q, v, lo, hi, c, s)
    BY <1>2, <2>1, <2>2, <2>3, <2>4 DEF StretchedBy
  <2> QED
    BY <2>5 DEF Stretched
<1> QED
  BY <1>1, <1>2, SMT

\* One of the two axes, in GunCon units from lo to hi: the picture is r of its
\* n pixels, from x on.
OnAxis(lo, hi, n, x, r, s) ==
  \/ lo = 78 /\ hi = 460 /\ Across(n, x, r, s)
  \/ lo = 16 /\ hi = 256 /\ Down(n, x, r, s)

\* The gun points into the picture.
InPicture(v, lo, hi, n, x, r) ==
  x * (hi - lo) <= (v - lo) * n /\ (v - lo) * n <= (x + r) * (hi - lo)

\* Where the crosshair of a reading is along the axis, and that it is within
\* three pixels of where the gun points.
GunAt(v, lo, hi, x, r, s) ==
  x + ((unscale_axis(stretch_axis(v, lo, hi, s), lo, hi) * r) \div 65536)
NearReading(at, v, lo, hi, n) ==
  /\ at \in Int
  /\ -(3 * (hi - lo)) <= at * (hi - lo) - (v - lo) * n
  /\ at * (hi - lo) - (v - lo) * n <= 3 * (hi - lo)

\* correct_raw, raw_to_normalized and the overlay undo each other along an axis.
LEMMA GunOnAxis ==
  ASSUME NEW lo \in Nat, NEW hi \in Nat,
         NEW n \in Nat, NEW x \in Int, NEW r \in Nat, NEW s \in Nat,
         OnAxis(lo, hi, n, x, r, s), NEW v \in Nat, InPicture(v, lo, hi, n, x, r)
  PROVE  NearReading(GunAt(v, lo, hi, x, r, s), v, lo, hi, n)
<1>1. v <= 2047 /\ s > 0 /\ hi <= 65535 /\ lo <= hi
  <2>1. CASE lo = 78 /\ hi = 460
    BY <2>1 DEF OnAxis, Across, InPicture
  <2>2. CASE lo = 16 /\ hi = 256
    BY <2>2 DEF OnAxis, Down, InPicture
  <2> QED
    BY <2>1, <2>2 DEF OnAxis
<1>2. PICK c \in Int : 2 * c = lo + hi
  <2>1. 2 * 269 = 78 + 460 /\ 2 * 136 = 16 + 256
    OBVIOUS
  <2> QED
    BY <2>1 DEF OnAxis
<1>3. PICK q \in Int : StretchedBy(q, v, lo, hi, c, s)
  <2>1. Stretched(v, lo, hi, c, s)
    BY <1>1, <1>2, StretchIs, SMT
  <2> QED
    BY <2>1 DEF Stretched
<1> DEFINE k == Clamped(c + q, lo, hi)
<1>4. /\ k \in Int
      /\ (v - c) * 65536 - s < s * (k - c) /\ s * (k - c) < (v - c) * 65536 + s
      /\ s = 65536 => k = v
  BY <1>2, <1>3 DEF StretchedBy, Clamped, Most, Least, OnAxis, Across, Down, InPicture
<1> HIDE DEF k
<1>5. PICK m \in Int : /\ m = unscale_axis(stretch_axis(v, lo, hi, s), lo, hi)
                       /\ (hi - lo) * m <= (k - lo) * 65535
                       /\ (k - lo) * 65535 < (hi - lo) * m + (hi - lo)
  <2>1. unscale_axis(stretch_axis(v, lo, hi, s), lo, hi) = ((k - lo) * 65535) \div (hi - lo)
    BY <1>3 DEF unscale_axis, StretchedBy, Clamped, k
  <2>2. PICK u \in Int, d \in Nat : u = (k - lo) * 65535 /\ d = hi - lo /\ d > 0
    BY <1>4 DEF OnAxis
  <2>3. u \div d \in Int /\ d * (u \div d) <= u /\ u < d * (u \div d) + d
    BY <2>2, DivIs
  <2> QED
    BY <2>1, <2>2, <2>3
<1>6. PICK j \in Int : j = (m * r) \div 65536 /\ 65536 * j <= m * r /\ m * r < 65536 * j + 65536
  BY DivIs
<1>7. (x + j) * (hi - lo) - (v - lo) * n <= 3 * (hi - lo)
  BY <1>2, <1>4, <1>5, <1>6 DEF OnAxis, Across, Down, InPicture
<1>8. -(3 * (hi - lo)) <= (x + j) * (hi - lo) - (v - lo) * n
  BY <1>2, <1>4, <1>5, <1>6 DEF OnAxis, Across, Down, InPicture
<1>9. GunAt(v, lo, hi, x, r, s) = x + j
  BY <1>5, <1>6 DEF GunAt
<1>10. NearReading(x + j, v, lo, hi, n)
  BY <1>7, <1>8 DEF NearReading
<1> QED
  BY <1>9, <1>10

\* What is known of a quotient, multiplied.
LEMMA Multiplied ==
  ASSUME NEW a \in Nat, NEW b \in Nat, NEW t \in Int, NEW v \in Int, NEW r \in Nat,
         a * t <= b * v, b * v < a * t + a
  PROVE  a * (t * r) <= b * (v * r) /\ b * (v * r) <= a * (t * r) + a * r
<1>1. PICK e \in Nat : e = b * v - a * t /\ e <= a
  OBVIOUS
<1>2. 0 <= e * r /\ e * r <= a * r
  BY <1>1
<1>3. e * r = b * (v * r) - a * (t * r)
  BY <1>1
<1>4. a * (t * r) \in Int /\ b * (v * r) \in Int /\ a * r \in Int /\ e * r \in Int
  OBVIOUS
<1> QED
  BY <1>2, <1>3, <1>4

\* The overlay and scale_axis place a normalized aim alike along an axis.
LEMMA GyroOnAxis ==
  ASSUME NEW v \in Nat, v <= 65535, NEW r \in Nat, NEW units \in {382, 240}
  PROVE  LET at == (v * r) \div 65536
             told == (v * (units + 1)) \div 65536
         IN  /\ at \in Int /\ told \in Int
             /\ -(units + r) <= at * units - told * r /\ at * units - told * r <= units + r
<1>1. PICK at \in Int : at = (v * r) \div 65536 /\ 65536 * at <= v * r /\ v * r < 65536 * at + 65536
  BY DivIs
<1>2. PICK told \in Int : /\ told = (v * (units + 1)) \div 65536
                          /\ 65536 * told <= v * (units + 1)
                          /\ v * (units + 1) < 65536 * told + 65536
  BY DivIs
<1>3. PICK p \in Int, t \in Int : p = v * r /\ t = told * r
  BY <1>1, <1>2
<1>6. 65536 * at <= p /\ p < 65536 * at + 65536 /\ 0 <= p /\ p <= 65535 * r
  BY <1>1, <1>3
<1>4. CASE units = 382
  <2>1. 65536 * told <= 383 * v /\ 383 * v < 65536 * told + 65536
    BY <1>2, <1>4
  <2>2. 65536 * (told * r) <= 383 * (v * r) /\ 383 * (v * r) <= 65536 * (told * r) + 65536 * r
    BY <1>2, <2>1, Multiplied
  <2>3. 65536 * t <= 383 * p /\ 383 * p <= 65536 * t + 65536 * r
    BY <1>3, <2>2
  <2>4. -(382 + r) <= at * 382 - t /\ at * 382 - t <= 382 + r
    BY <1>6, <2>3
  <2> QED
    BY <1>1, <1>2, <1>3, <1>4, <2>4
<1>5. CASE units = 240
  <2>1. 65536 * told <= 241 * v /\ 241 * v < 65536 * told + 65536
    BY <1>2, <1>5
  <2>2. 65536 * (told * r) <= 241 * (v * r) /\ 241 * (v * r) <= 65536 * (told * r) + 65536 * r
    BY <1>2, <2>1, Multiplied
  <2>3. 65536 * t <= 241 * p /\ 241 * p <= 65536 * t + 65536 * r
    BY <1>3, <2>2
  <2>4. -(240 + r) <= at * 240 - t /\ at * 240 - t <= 240 + r
    BY <1>6, <2>3
  <2> QED
    BY <1>1, <1>2, <1>3, <1>5, <2>4
<1> QED
  BY <1>4, <1>5

\* The numbers of a picture.
LEMMA PictureNumbers ==
  ASSUME NEW d \in EveryDisplay
  PROVE  \E nx \in Nat, x \in Int, w \in Nat, sx \in Nat, ny \in Nat, y \in Int, h \in Nat, sy \in Nat :
           /\ d.w = nx /\ picture_rect(d).x = x /\ picture_rect(d).w = w /\ Share(d)[1] = sx
           /\ d.h = ny /\ picture_rect(d).y = y /\ picture_rect(d).h = h /\ Share(d)[2] = sy
           /\ Across(nx, x, w, sx) /\ Down(ny, y, h, sy)
<1>1. /\ Across(d.w, picture_rect(d).x, picture_rect(d).w, Share(d)[1])
      /\ Down(d.h, picture_rect(d).y, picture_rect(d).h, Share(d)[2])
  BY PictureOf
<1>2. /\ d.w \in Nat /\ picture_rect(d).x \in Int /\ picture_rect(d).w \in Nat /\ Share(d)[1] \in Nat
  BY <1>1, SMT DEF Across
<1>3. /\ d.h \in Nat /\ picture_rect(d).y \in Int /\ picture_rect(d).h \in Nat /\ Share(d)[2] \in Nat
  BY <1>1, SMT DEF Down
<1> QED
  BY <1>1, <1>2, <1>3, Zenon

\* NearReading, as CrosshairTrue states it.
LEMMA NearIs ==
  ASSUME NEW v \in Nat, NEW lo \in Nat, NEW hi \in Nat, NEW n \in Nat, NEW at,
         NearReading(at, v, lo, hi, n)
  PROVE  Near(at * (hi - lo), (v - lo) * n, 3 * (hi - lo))
<1>1. PICK a \in Int, b \in Int, c \in Int :
        a = at * (hi - lo) /\ b = (v - lo) * n /\ c = 3 * (hi - lo)
  BY DEF NearReading
<1>2. -c <= a - b /\ a - b <= c
  BY <1>1 DEF NearReading
<1> QED
  BY <1>1, <1>2 DEF Near

\* A gun's crosshair, on every display.
LEMMA GunIsTrue ==
  ASSUME NEW d \in EveryDisplay, NEW vx \in Nat, NEW vy \in Nat, ~is_no_light(<<vx, vy>>)
  PROVE  GunCrosshairTrue(<<vx, vy>>, CentreOf([raw |-> TRUE, xy |-> <<vx, vy>>], d), d)
<1>1. PICK nx \in Nat, x \in Int, w \in Nat, sx \in Nat, ny \in Nat, y \in Int, h \in Nat, sy \in Nat :
        /\ d.w = nx /\ picture_rect(d).x = x /\ picture_rect(d).w = w /\ Share(d)[1] = sx
        /\ d.h = ny /\ picture_rect(d).y = y /\ picture_rect(d).h = h /\ Share(d)[2] = sy
        /\ Across(nx, x, w, sx) /\ Down(ny, y, h, sy)
  BY PictureNumbers, Zenon
<1>2. PICK lx \in Nat, hx \in Nat : lx = GUNCON_X_MIN /\ hx = GUNCON_X_MAX
  BY SMT DEF GUNCON_X_MIN, GUNCON_X_MAX
<1>3. PICK ly \in Nat, hy \in Nat : ly = GUNCON_Y_MIN /\ hy = GUNCON_Y_MAX
  BY SMT DEF GUNCON_Y_MIN, GUNCON_Y_MAX
<1>4. hx - lx = 382 /\ hy - ly = 240
  BY <1>2, <1>3, SMT DEF GUNCON_X_MIN, GUNCON_X_MAX, GUNCON_Y_MIN, GUNCON_Y_MAX
<1>5. OnAxis(lx, hx, nx, x, w, sx) /\ OnAxis(ly, hy, ny, y, h, sy)
  BY <1>1, <1>2, <1>3, SMT DEF OnAxis, GUNCON_X_MIN, GUNCON_X_MAX, GUNCON_Y_MIN, GUNCON_Y_MAX
<1>6. correct_raw(<<vx, vy>>, Share(d))
        = <<stretch_axis(vx, lx, hx, sx), stretch_axis(vy, ly, hy, sy)>>
  <2>1. <<vx, vy>> # NO_LIGHT
    BY SMT DEF is_no_light, NO_LIGHT
  <2> QED
    BY <1>1, <1>2, <1>3, <2>1, SMT DEF correct_raw
<1> DEFINE at == CentreOf([raw |-> TRUE, xy |-> <<vx, vy>>], d)
<1>7. at = <<GunAt(vx, lx, hx, x, w, sx), GunAt(vy, ly, hy, y, h, sy)>>
  BY <1>1, <1>2, <1>3, <1>6, SMT DEF CentreOf, Crosshair, raw_to_normalized, GunAt
<1> HIDE DEF at
<1>8. ASSUME (vx - GUNCON_X_MIN) * d.w
               \in (picture_rect(d).x * 382)..((picture_rect(d).x + picture_rect(d).w) * 382)
      PROVE  Near(at[1] * 382, (vx - GUNCON_X_MIN) * d.w, 3 * 382)
  <2>1. InPicture(vx, lx, hx, nx, x, w)
    BY <1>1, <1>2, <1>4, <1>8, SMT DEF InPicture
  <2>2. NearReading(GunAt(vx, lx, hx, x, w, sx), vx, lx, hx, nx)
    BY <1>5, <2>1, GunOnAxis, Zenon
  <2>3. Near(at[1] * (hx - lx), (vx - lx) * nx, 3 * (hx - lx))
    <3>1. at[1] = GunAt(vx, lx, hx, x, w, sx)
      BY <1>7
    <3> QED
      BY <2>2, <3>1, NearIs, Zenon
  <2> QED
    BY <1>1, <1>2, <1>4, <2>3, Zenon
<1>9. ASSUME (vy - GUNCON_Y_MIN) * d.h
               \in (picture_rect(d).y * 240)..((picture_rect(d).y + picture_rect(d).h) * 240)
      PROVE  Near(at[2] * 240, (vy - GUNCON_Y_MIN) * d.h, 3 * 240)
  <2>1. InPicture(vy, ly, hy, ny, y, h)
    BY <1>1, <1>3, <1>4, <1>9, SMT DEF InPicture
  <2>2. NearReading(GunAt(vy, ly, hy, y, h, sy), vy, ly, hy, ny)
    BY <1>5, <2>1, GunOnAxis, Zenon
  <2>3. Near(at[2] * (hy - ly), (vy - ly) * ny, 3 * (hy - ly))
    <3>1. at[2] = GunAt(vy, ly, hy, y, h, sy)
      BY <1>7
    <3> QED
      BY <2>2, <3>1, NearIs, Zenon
  <2> QED
    BY <1>1, <1>3, <1>4, <2>3, Zenon
<1> QED
  BY <1>8, <1>9, SMT DEF GunCrosshairTrue, at

\* A gyro's crosshair, on every display.
LEMMA GyroIsTrue ==
  ASSUME NEW d \in EveryDisplay, NEW vx \in Nat, vx <= 65535, NEW vy \in Nat, vy <= 65535
  PROVE  GyroCrosshairTrue(<<vx, vy>>, CentreOf([raw |-> FALSE, xy |-> <<vx, vy>>], d), d)
<1>1. PICK x \in Int, w \in Nat, y \in Int, h \in Nat :
        /\ picture_rect(d).x = x /\ picture_rect(d).w = w
        /\ picture_rect(d).y = y /\ picture_rect(d).h = h
  BY PictureNumbers, SMT
<1> DEFINE onX == (vx * w) \div 65536
           onY == (vy * h) \div 65536
           toldX == (vx * (382 + 1)) \div 65536
           toldY == (vy * (240 + 1)) \div 65536
<1> DEFINE at == CentreOf([raw |-> FALSE, xy |-> <<vx, vy>>], d)
           told == Scaled(<<vx, vy>>)
<1>2. at = <<x + onX, y + onY>>
  BY <1>1, SMT DEF CentreOf, Crosshair
<1>3. told = <<78 + toldX, 16 + toldY>>
  BY SMT DEF Scaled, scale_axis, GUNCON_X_MIN, GUNCON_X_MAX, GUNCON_Y_MIN, GUNCON_Y_MAX
<1>4. /\ onX \in Int /\ toldX \in Int
      /\ -(382 + w) <= onX * 382 - toldX * w /\ onX * 382 - toldX * w <= 382 + w
  <2>1. PICK units \in {382, 240} : units = 382
    OBVIOUS
  <2> QED
    BY <2>1, GyroOnAxis, SMT
<1>5. /\ onY \in Int /\ toldY \in Int
      /\ -(240 + h) <= onY * 240 - toldY * h /\ onY * 240 - toldY * h <= 240 + h
  <2>1. PICK units \in {382, 240} : units = 240
    OBVIOUS
  <2> QED
    BY <2>1, GyroOnAxis, SMT
<1> HIDE DEF onX, onY, toldX, toldY, at, told
<1>6. Near((at[1] - picture_rect(d).x) * 382, (told[1] - GUNCON_X_MIN) * picture_rect(d).w,
           382 + picture_rect(d).w)
  BY <1>1, <1>2, <1>3, <1>4, SMT DEF Near, GUNCON_X_MIN
<1>7. Near((at[2] - picture_rect(d).y) * 240, (told[2] - GUNCON_Y_MIN) * picture_rect(d).h,
           240 + picture_rect(d).h)
  BY <1>1, <1>2, <1>3, <1>5, SMT DEF Near, GUNCON_Y_MIN
<1> QED
  BY <1>6, <1>7, SMT DEF GyroCrosshairTrue, at, told

\* What a target is.
LEMMA FieldsOf ==
  ASSUME NEW B, NEW S, NEW t \in [raw : B, xy : S]
  PROVE  t.raw \in B /\ t.xy \in S
OBVIOUS

LEMMA RawTarget ==
  ASSUME NEW t \in [raw : {TRUE}, xy : Readings]
  PROVE  t.raw /\ \E a \in Nat, b \in Nat : t.xy = <<a, b>>
<1>1. t.raw \in {TRUE} /\ t.xy \in Readings
  BY FieldsOf, Zenon
<1>3. t.xy \in Nat \X Nat
  BY <1>1, AimScreenAssumption
<1>4. t.xy = <<t.xy[1], t.xy[2]>> /\ t.xy[1] \in Nat /\ t.xy[2] \in Nat
  BY <1>3
<1> QED
  BY <1>1, <1>4, Zenon

\* A normalized aim.
IsAim(xy) == \E a \in Nat, b \in Nat : xy = <<a, b>> /\ a <= 65535 /\ b <= 65535

LEMMA GyroTarget ==
  ASSUME NEW t \in [raw : {FALSE}, xy : Aims]
  PROVE  ~t.raw /\ IsAim(t.xy)
<1>1. t.raw \in {FALSE} /\ t.xy \in Aims
  BY FieldsOf, Zenon
<1>2. t.xy \in Nat \X Nat /\ t.xy[1] <= 65535 /\ t.xy[2] <= 65535
  BY <1>1, AimScreenAssumption, SMT
<1>3. t.xy = <<t.xy[1], t.xy[2]>> /\ t.xy[1] \in Nat /\ t.xy[2] \in Nat
  BY <1>2, SMT
<1>4. ~t.raw
  BY <1>1, Zenon
<1>5. PICK a \in Nat, b \in Nat : a = t.xy[1] /\ b = t.xy[2]
  BY <1>3, SMT
<1>6. t.xy = <<a, b>> /\ a <= 65535 /\ b <= 65535
  BY <1>2, <1>3, <1>5, SMT
<1> QED
  BY <1>4, <1>6, SMT DEF IsAim

\* The overlay only meets the displays there are.
DisplayInv == display \in Displays /\ target \in Targets

\* The crosshair shows the player what the game is told, on every display and
\* screen mode, for every reading in the picture and every aim (overlay_step,
\* correct_raw and picture_rect).
THEOREM CrosshairIsTrue == OverlaySpec => []CrosshairTrue
<1>1. OverlayInit => DisplayInv
  BY DEF OverlayInit, DisplayInv, Targets
<1>2. DisplayInv /\ [OverlayNext]_overlayVars => DisplayInv'
  <2> SUFFICES ASSUME DisplayInv, [OverlayNext]_overlayVars
               PROVE  DisplayInv'
    OBVIOUS
  <2>1. CASE Pops \/ WantFlash \/ UNCHANGED overlayVars
    BY <2>1 DEF DisplayInv, Targets, Pops, Repaint, Flip, SetDisplay, WantFlash, overlayVars,
       popsVars
  <2>2. CASE overlay_step
    BY <2>2 DEF DisplayInv, Targets, overlay_step, FlashStep, FlashProbe, CrosshairStep, popsVars
  <2>3. CASE \E new \in Targets : MoveAim(new)
    BY <2>3 DEF DisplayInv, Targets, MoveAim, popsVars
  <2> QED
    BY <2>1, <2>2, <2>3 DEF OverlayNext
<1>3. DisplayInv => CrosshairTrue
  <2> SUFFICES ASSUME DisplayInv, want
               PROVE  IF target.raw THEN GunCrosshairTrue(target.xy, Centre, display)
                      ELSE GyroCrosshairTrue(target.xy, Centre, display)
    BY DEF CrosshairTrue
  <2>1. PICK d \in EveryDisplay : d = display
    BY OverlayAssumption DEF DisplayInv
  <2>2. CASE target \in [raw : {TRUE}, xy : Readings]
    <3>1. PICK vx \in Nat, vy \in Nat : target.raw /\ target.xy = <<vx, vy>>
      BY <2>2, RawTarget, Zenon
    <3>2. ~is_no_light(<<vx, vy>>)
      BY <3>1, Zenon DEF want
    <3>3. GunCrosshairTrue(<<vx, vy>>, CentreOf([raw |-> TRUE, xy |-> <<vx, vy>>], d), d)
      BY <3>2, GunIsTrue, Zenon
    <3>4. CentreOf([raw |-> TRUE, xy |-> <<vx, vy>>], d) = CentreOf(target, display)
      BY <2>1, <3>1, SMT DEF CentreOf
    <3> QED
      BY <2>1, <3>1, <3>3, <3>4, Zenon DEF Centre
  <2>3. CASE target \in [raw : {FALSE}, xy : Aims]
    <3>1. PICK vx \in Nat, vy \in Nat :
            ~target.raw /\ target.xy = <<vx, vy>> /\ vx <= 65535 /\ vy <= 65535
      <4>1. ~target.raw /\ IsAim(target.xy)
        BY <2>3, GyroTarget, Zenon
      <4> QED
        BY <4>1, SMT DEF IsAim
    <3>2. GyroCrosshairTrue(<<vx, vy>>, CentreOf([raw |-> FALSE, xy |-> <<vx, vy>>], d), d)
      BY <3>1, GyroIsTrue, SMT
    <3>3. CentreOf([raw |-> FALSE, xy |-> <<vx, vy>>], d) = CentreOf(target, display)
      BY <2>1, <3>1, SMT DEF CentreOf
    <3> QED
      BY <2>1, <3>1, <3>2, <3>3, SMT DEF Centre
  <2> QED
    BY <2>2, <2>3, Zenon DEF DisplayInv, Targets, want
<1> QED
  BY <1>1, <1>2, <1>3, PTL DEF OverlaySpec

=============================================================================
