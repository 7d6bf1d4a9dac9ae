------------------------------ MODULE PopsGate ------------------------------
(***************************************************************************)
(* The gate that main.c patches into POPS while player 2 is connected: two *)
(* instruction words of POPS, which special_button_thread writes and which *)
(* main_thread writes too, after every JoyEvent.                           *)
(*                                                                         *)
(* main_thread has the higher priority (15 against 16) and blocks only for *)
(* its next event: a JoyEvent is one action here.  It may come between any *)
(* two steps of special_button_thread, whose pc names the assignment or    *)
(* the word it is about to write, or says that it sleeps: between polls,   *)
(* and for 10 ms in each call of rjmLogText or rjmLogHex (rjm_log.c).      *)
(* Interrupts are disabled only while the buttons are read.                *)
(***************************************************************************)
EXTENDS Integers

CONSTANT
  KnownPops  \* whether the signature of this POPS is one the plugin knows

ASSUME PopsGateAssumption == KnownPops \in BOOLEAN

VARIABLES
  p2_connected,   \* g_p2_connected
  virtual_input,  \* whether the buttons held make a virtual analog input
  loaded,         \* whether POPS has been loaded
  code,           \* the two words at g_pops_gate_target
  trampoline,     \* g_pops_gate_trampoline[0..1]
  state,          \* g_pops_gate_state
  gate,           \* g_pops_gate_mode, g_pops_gate_virtual_active and
                  \* g_pops_gate_slot2_pulse_ms, in polls
  pc,             \* where special_button_thread is
  updates,        \* how often it still calls update_pops_gate_mode in this poll
  active,         \* its local virtual_active
  to,             \* the mode it is patching in
  overtaken       \* main_thread patched the gate amid a patch or the removal

inputs == <<p2_connected, virtual_input>>
locals == <<pc, updates, active, to>>
vars == <<inputs, loaded, code, trampoline, state, gate, locals, overtaken>>

\* The words of the gate in each mode: POPS's own, "jr ra; li v0, 4", and
\* "j pops_gate_entry; nop".
Original == 0
Fast == 1
Slot2 == 2
Modes == {Original, Fast, Slot2}
Words(mode) ==
  CASE mode = Original -> <<"lui", "addiu">>
    [] mode = Fast     -> <<"jr", "li">>
    [] mode = Slot2    -> <<"j", "nop">>

NotTried == 0
Installed == 1
GaveUp == -1

\* POPS_GATE_SLOT2_PULSE_MS is one poll.
Pulse == 1

-----------------------------------------------------------------------------
\* The pulse that a virtual input starts and its end stops.
PulseOf(g, now) ==
  IF now /\ ~g.virtual THEN Pulse ELSE IF ~now THEN 0 ELSE g.pulse
ModeFor(pulse) == IF pulse > 0 THEN Slot2 ELSE Fast
\* Mutant: the pulse is never spent.
Spent_Never(pulse) == pulse
Spent(pulse) == pulse - Pulse

\* update_pops_gate_mode, when nothing comes between: main_thread's call of it.
\* A mode that is set already is not written again.
Updated(g, now) ==
  LET pulse == PulseOf(g, now)
  IN  [mode |-> ModeFor(pulse), virtual |-> now,
      pulse |-> IF pulse > 0 THEN Spent(pulse) ELSE pulse]

-----------------------------------------------------------------------------
(***************************************************************************)
(* main_thread                                                             *)
(***************************************************************************)

\* handle_joyevent, once it has set the inputs.
UpdateByMain ==
  IF state = Installed
  THEN LET new == Updated(gate, virtual_input')
       IN  /\ gate' = new
           /\ code' = IF new.mode = gate.mode THEN code ELSE Words(new.mode)
           /\ overtaken' = (overtaken \/
                /\ code' # code
                /\ pc \in {"word1", "mark", "unword1", "forget"})
  ELSE UNCHANGED <<gate, code, overtaken>>

\* TYPE_P2_STATUS: player 2's buttons go with player 2.
Player2Status ==
  /\ p2_connected' \in BOOLEAN
  /\ virtual_input' \in {virtual_input} \cup (IF p2_connected' THEN {} ELSE {FALSE})
  /\ UpdateByMain
  /\ UNCHANGED <<loaded, trampoline, state, locals>>

\* Any other event, which may press or release the virtual inputs.
ButtonEvent ==
  /\ virtual_input' \in BOOLEAN
  /\ UpdateByMain
  /\ UNCHANGED <<p2_connected, loaded, trampoline, state, locals>>

\* reset_remote_input_state, when the link goes: the gate is left alone.
reset_remote_input_state ==
  /\ p2_connected' = FALSE
  /\ virtual_input' = FALSE
  /\ UNCHANGED <<loaded, code, trampoline, state, gate, locals, overtaken>>

\* scePopsMan loads POPS at some time after the plugin has started.
PopsLoads ==
  /\ ~loaded
  /\ loaded' = TRUE
  /\ UNCHANGED <<inputs, code, trampoline, state, gate, locals, overtaken>>

-----------------------------------------------------------------------------
(***************************************************************************)
(* special_button_thread                                                   *)
(***************************************************************************)
At(here) == pc = here
Goto(there) == pc' = there

\* special_button_thread sleeps, in its delay or in a log.
Sleeps == pc \in {"delay", "search", "match", "give up", "save", "installed"}

\* What try_install_pops_gate_hook leaves when POPS is not loaded: it tries again
\* in the next poll.
\* Mutant: it gives up for good.
WithoutPops_GaveUp == GaveUp
WithoutPops == NotTried

PollInstalls ==
  /\ p2_connected /\ state = NotTried
  /\ IF loaded THEN Goto("search") /\ UNCHANGED state
     ELSE Goto("update") /\ state' = WithoutPops

PollRemoves ==
  /\ ~p2_connected /\ state = Installed
  /\ Goto("unword0")
  /\ UNCHANGED state

PollUpdates ==
  /\ IF p2_connected THEN state # NotTried ELSE state # Installed
  /\ Goto("update")
  /\ UNCHANGED state

Poll ==
  /\ At("delay")
  /\ PollInstalls \/ PollRemoves \/ PollUpdates
  /\ updates' = 1
  /\ UNCHANGED <<inputs, loaded, code, trampoline, gate, active, to, overtaken>>

\* What is verified after the signature: that the words are POPS's own.
\* Mutant: the signature is enough.
IsOwnCode_Any == TRUE
IsOwnCode == code = Words(Original)

\* try_install_pops_gate_hook, once it has found POPS, logs what it finds and
\* only then goes on: it looks for the signature, which lies behind the words,
\* then at the words; it gives up for good on code it does not know, or saves
\* the words.
TryInstall ==
  /\ \/ At("search") /\ Goto(IF KnownPops THEN "match" ELSE "give up")
        /\ UNCHANGED <<trampoline, state, updates>>
     \/ At("match") /\ Goto(IF IsOwnCode THEN "save" ELSE "give up")
        /\ UNCHANGED <<trampoline, state, updates>>
     \/ At("give up") /\ Goto("update") /\ state' = GaveUp
        /\ UNCHANGED <<trampoline, updates>>
     \/ At("save") /\ Goto("install") /\ trampoline' = code /\ updates' = 2
        /\ UNCHANGED state
  /\ UNCHANGED <<inputs, loaded, code, gate, active, to, overtaken>>

\* The rest of it: from the first assignment on, main_thread takes the gate for
\* installed.
Install ==
  /\ \/ At("install") /\ Goto("reset mode") /\ state' = Installed /\ UNCHANGED gate
     \/ /\ At("reset mode") /\ Goto("reset virtual")
        /\ gate' = [gate EXCEPT !.mode = Original] /\ UNCHANGED state
     \/ /\ At("reset virtual") /\ Goto("reset pulse")
        /\ gate' = [gate EXCEPT !.virtual = FALSE] /\ UNCHANGED state
     \/ /\ At("reset pulse") /\ Goto("update")
        /\ gate' = [gate EXCEPT !.pulse = 0] /\ UNCHANGED state
     \/ At("installed") /\ Goto("update") /\ UNCHANGED <<state, gate>>
  /\ UNCHANGED <<inputs, loaded, code, trampoline, updates, active, to, overtaken>>

\* remove_pops_gate_hook: until its last step main_thread takes the gate for
\* installed.  The rest of the poll finds nothing installed.
\* Mutant: the mode stays the one that was removed.
NoGate_KeepsMode == [mode |-> gate.mode, virtual |-> FALSE, pulse |-> 0]
NoGate == [mode |-> Original, virtual |-> FALSE, pulse |-> 0]
Remove ==
  /\ \/ /\ At("unword0") /\ Goto("unword1")
        /\ code' = [code EXCEPT ![1] = trampoline[1]] /\ UNCHANGED <<state, gate>>
     \/ /\ At("unword1") /\ Goto("forget")
        /\ code' = [code EXCEPT ![2] = trampoline[2]] /\ UNCHANGED <<state, gate>>
     \/ /\ At("forget") /\ Goto("delay")
        /\ state' = NotTried /\ gate' = NoGate /\ UNCHANGED code
  /\ updates' = 0
  /\ UNCHANGED <<inputs, loaded, trampoline, active, to, overtaken>>

\* A call of update_pops_gate_mode is over, the poll's or
\* try_install_pops_gate_hook's, which logs then.
Return ==
  /\ updates' = updates - 1
  /\ Goto(IF updates = 1 THEN "delay" ELSE "installed")

\* update_pops_gate_mode, up to the decision which patch to apply.
Update ==
  /\ At("update")
  /\ IF state = Installed
     THEN active' = virtual_input /\ Goto("edge") /\ UNCHANGED updates
     ELSE UNCHANGED active /\ Return
  /\ UNCHANGED <<inputs, loaded, code, trampoline, state, gate, to, overtaken>>

Edge ==
  /\ \/ /\ At("edge") /\ Goto("remember")
        /\ gate' = [gate EXCEPT !.pulse = PulseOf(gate, active)]
     \/ /\ At("remember") /\ Goto("patch")
        /\ gate' = [gate EXCEPT !.virtual = active]
  /\ UNCHANGED <<inputs, loaded, code, trampoline, state, updates, active, to,
                 overtaken>>

\* patch_pops_gate_slot2_asm or patch_pops_gate_fast_return4 does nothing in
\* its own mode.
Patch ==
  /\ At("patch")
  /\ to' = ModeFor(gate.pulse)
  /\ Goto(IF gate.mode = to' THEN "spend" ELSE "word0")
  /\ UNCHANGED <<inputs, loaded, code, trampoline, state, gate, updates, active,
                 overtaken>>

Write ==
  /\ \/ /\ At("word0") /\ Goto("word1")
        /\ code' = [code EXCEPT ![1] = Words(to)[1]] /\ UNCHANGED gate
     \/ /\ At("word1") /\ Goto("mark")
        /\ code' = [code EXCEPT ![2] = Words(to)[2]] /\ UNCHANGED gate
     \/ /\ At("mark") /\ Goto("spend")
        /\ gate' = [gate EXCEPT !.mode = to] /\ UNCHANGED code
  /\ UNCHANGED <<inputs, loaded, trampoline, state, updates, active, to, overtaken>>

Spend ==
  /\ At("spend")
  /\ gate' = IF to = Slot2 THEN [gate EXCEPT !.pulse = Spent(@)] ELSE gate
  /\ Return
  /\ UNCHANGED <<inputs, loaded, code, trampoline, state, active, to, overtaken>>

special_button_thread ==
  Poll \/ TryInstall \/ Install \/ Remove \/ Update \/ Edge \/ Patch \/ Write \/ Spend

-----------------------------------------------------------------------------
Init ==
  /\ p2_connected = FALSE
  /\ virtual_input = FALSE
  /\ loaded \in BOOLEAN
  /\ code = Words(Original)
  /\ trampoline = <<"none", "none">>
  /\ state = NotTried
  /\ gate = [mode |-> Original, virtual |-> FALSE, pulse |-> 0]
  /\ pc = "delay"
  /\ updates = 0
  /\ active = FALSE
  /\ to = Original
  /\ overtaken = FALSE

handle_joyevent == Player2Status \/ ButtonEvent

Next ==
  \/ handle_joyevent \/ reset_remote_input_state \/ PopsLoads
  \/ special_button_thread

Spec == Init /\ [][Next]_vars

\* special_button_thread polls for ever: main_thread, of higher priority, waits
\* for its next event.
FairSpec == Spec /\ WF_vars(special_button_thread)

-----------------------------------------------------------------------------
(***************************************************************************)
(* Properties                                                              *)
(***************************************************************************)

\* What remove_pops_gate_hook restores is POPS's own code, even after a patch
\* was left behind: try_install_pops_gate_hook never saves a patch.
TrampolineIsOriginal ==
  state = Installed => trampoline = Words(Original)

\* Between two polls the mode tells the words of the gate, as long as
\* main_thread has patched the gate in none of the windows.
GateMatchesMode ==
  At("delay") /\ ~overtaken => code = Words(gate.mode)

\* In the same case POPS, once loaded, is hooked as long as player 2 stays: the
\* plugin gives up only code it does not know.
InstalledOnceLoaded ==
  [](~overtaken) /\ <>[](p2_connected /\ loaded) /\ KnownPops =>
    <>[](state = Installed)

\* In the same case slot 2 is polled for a pulse, never for good.
PulseEnds == [](~overtaken) => []<>(code # Words(Slot2))

\* POPS_2P.md, "retest with Slot 2 disconnected to confirm that stock POPS
\* behavior returns": without player 2, POPS runs its own code in the end.
StockBehaviourReturns ==
  <>[](~p2_connected) => <>[](code = Words(Original))

=============================================================================
