--------------------------- MODULE ModuleLifecycle ---------------------------
(***************************************************************************)
(* The life of the plugin's module, main.c: its threads are started, hook  *)
(* the controller functions and start USB, and cleanup_module undoes all   *)
(* of it when the module is stopped, when the system reboots, or, outside  *)
(* POPS, when special_button_thread finds that POPS has been loaded.       *)
(* In POPS this is composed with the gate of PopsGate; outside POPS with   *)
(* the hooked functions that tell a game of presses and releases.          *)
(*                                                                         *)
(* One processor and priorities: main_thread (15) runs until it waits, and *)
(* special_button_thread and power_thread (16) run unless main_thread      *)
(* does.  Who stops the module has a priority that main.c does not choose: *)
(* above all of these or below them.  But each call of rjmLogText or       *)
(* rjmLogHex sleeps for 10 ms (rjm_log.c), cleanup_module's as much as     *)
(* special_button_thread's: the others run meanwhile.                      *)
(***************************************************************************)
EXTENDS PopsGate, FiniteSets

VARIABLES
  g_is_pops_context,  \* FALSE outside POPS
  above,      \* module_stop's thread comes before the plugin's
  unstarted,  \* how many of its threads module_start has still to start
  main,       \* main_thread: none, delay, usb, hook, run, gone
  special,    \* special_button_thread: none, run, told to end, gone
  power,      \* power_thread: none, run with its callback registered, gone
  usb,        \* the driver is started
  hooked,     \* the controller functions whose *_common is set
  cleanup,    \* cleanup_module: who runs it, and what it does next
  amid,       \* main_thread took a step, or a thread was started, amid the
              \* cleanup (history)
  caught,     \* special_button_thread was installing the gate or patching it
              \* when cleanup_module came to remove it (history)
  buttons,    \* g_currjoy.Buttons, outside POPS
  intercept,  \* g_intercept_buttons holds HOME
  latch,      \* g_remote_latch_make and g_remote_latch_break
  seen,       \* uiPress of the game's last sceCtrlReadLatch
  reset       \* the input was reset since (history)

threads == <<unstarted, main, special, power>>
padVars == <<buttons, intercept, latch>>
gameVars == <<seen, reset>>
history == <<amid, caught>>
life == <<g_is_pops_context, above, threads, usb, hooked, cleanup, history, padVars,
          gameVars>>
lifeVars == <<vars, life>>

Buttons == {"START", "LEFT", "HOME"}
BufferFunctions ==
  {"peek_positive", "peek_negative", "read_positive", "read_negative"}
LatchFunctions == {"peek_latch", "read_latch"}
NoLatch == [make |-> {}, break |-> {}]

Kept == cleanup.next = "not begun"
InCleanup == cleanup.next \notin {"not begun", "done"}
\* cleanup_module logs before all it does, but for the removal of the gate and of
\* the hooks.
CleanupAsleep ==
  InCleanup /\ cleanup.next \notin {"gate", "gate1", "gate2", "hooks"}

\* The module's threads run unless a cleanup of higher priority does.
ThreadsRun == InCleanup /\ cleanup.by = "stop" /\ above => CleanupAsleep

\* A stop of lower priority runs while special_button_thread sleeps; main_thread
\* waits, or sleeps, between any two of its steps here.
StopRuns == above \/ special \in {"none", "gone"} \/ Sleeps

LifeInit ==
  /\ Init
  /\ g_is_pops_context \in BOOLEAN
  /\ above \in BOOLEAN
  /\ unstarted = 3
  /\ main = "none" /\ special = "none" /\ power = "none"
  /\ usb = FALSE
  /\ hooked = {}
  /\ cleanup = [by |-> "nobody", next |-> "not begun"]
  /\ amid = FALSE /\ caught = FALSE
  /\ buttons = {} /\ intercept = FALSE
  /\ latch = NoLatch
  /\ seen = {} /\ reset = FALSE

\* module_start starts special_button_thread, then power_thread, then
\* main_thread, which may all run before it goes on.
module_start ==
  /\ unstarted > 0
  /\ unstarted' = unstarted - 1
  /\ special' = IF unstarted = 3 THEN "run" ELSE special
  /\ power' = IF unstarted = 2 THEN "run" ELSE power
  /\ main' = IF unstarted = 1 THEN "delay" ELSE main
  /\ amid' = (amid \/ ~Kept)
  /\ UNCHANGED <<vars, g_is_pops_context, above, usb, hooked, cleanup, caught, padVars,
                 gameVars>>

-----------------------------------------------------------------------------
(***************************************************************************)
(* main_thread                                                             *)
(***************************************************************************)
MainStep == ThreadsRun /\ amid' = (amid \/ InCleanup) /\ UNCHANGED caught

\* After three seconds it starts USB, and ends if that fails.
StartUsb ==
  /\ main = "delay" /\ MainStep
  /\ \/ main' = "hook" /\ usb' = TRUE
     \/ main' = "gone" /\ usb' = FALSE
  /\ UNCHANGED <<vars, g_is_pops_context, above, unstarted, special, power, hooked,
                 cleanup, padVars, gameVars>>

\* What is hooked already is left alone.
patch_function_jump(functions) == hooked' = hooked \cup functions

hook_ctrl_buffer_entry_functions ==
  /\ main = "hook" /\ hooked = {}
  /\ MainStep
  /\ patch_function_jump(BufferFunctions)
  /\ UNCHANGED <<vars, g_is_pops_context, above, threads, usb, cleanup, padVars,
                 gameVars>>

hook_ctrl_latch_functions ==
  /\ main = "hook" /\ hooked # {}
  /\ MainStep
  /\ patch_function_jump(LatchFunctions)
  /\ main' = "run"
  /\ UNCHANGED <<vars, g_is_pops_context, above, unstarted, special, power, usb,
                 cleanup, padVars, gameVars>>

\* What a game is told of the buttons held.
sanitize_remote_buttons(held) ==
  (IF {"START", "LEFT"} \subseteq held THEN held \ {"START", "LEFT"} ELSE held) \ {"HOME"}

\* The latches add up what is pressed and released of it.
\* Mutant: only the last event counts.
Latched_Last(old, new) ==
  [make |-> sanitize_remote_buttons(new) \ sanitize_remote_buttons(old),
   break |-> sanitize_remote_buttons(old) \ sanitize_remote_buttons(new)]
Latched(old, new) ==
  LET was == sanitize_remote_buttons(old)
      is == sanitize_remote_buttons(new)
  IN  [make |-> latch.make \cup (is \ was), break |-> latch.break \cup (was \ is)]

\* In POPS the event is PopsGate's.
HandleEvent ==
  /\ main = "run" /\ MainStep
  /\ IF g_is_pops_context THEN handle_joyevent /\ UNCHANGED padVars
     ELSE /\ buttons' \in SUBSET Buttons
          /\ latch' = Latched(buttons, buttons')
          /\ intercept' = ("HOME" \in buttons')
          /\ UNCHANGED vars
  /\ UNCHANGED <<g_is_pops_context, above, threads, usb, hooked, cleanup, gameVars>>

\* reset_remote_input_state, of the buttons, the intercept and the latches.
PadReset ==
  /\ buttons' = {}
  /\ intercept' = FALSE
  /\ latch' = NoLatch
  /\ reset' = TRUE

\* The link goes.
MainResets ==
  /\ main = "run" /\ MainStep
  /\ reset_remote_input_state
  /\ PadReset
  /\ UNCHANGED <<g_is_pops_context, above, threads, usb, hooked, cleanup, seen>>

main_thread ==
  \/ StartUsb \/ hook_ctrl_buffer_entry_functions \/ hook_ctrl_latch_functions
  \/ HandleEvent \/ MainResets

\* A game outside POPS polls the latches.
ctrl_read_latch_hook ==
  /\ ~g_is_pops_context
  /\ "read_latch" \in hooked
  /\ seen' = sanitize_remote_buttons(buttons)
  /\ latch' = NoLatch
  /\ reset' = FALSE
  /\ UNCHANGED <<vars, g_is_pops_context, above, threads, usb, hooked, cleanup, history,
                 buttons, intercept>>

-----------------------------------------------------------------------------
(***************************************************************************)
(* special_button_thread                                                   *)
(***************************************************************************)
PollInPops ==
  /\ special = "run" \/ (special = "told" /\ ~At("delay"))
  /\ ThreadsRun
  /\ g_is_pops_context
  /\ special_button_thread
  /\ UNCHANGED life

\* It is told to end by g_special_thread_run, which it reads between polls, and
\* not when the cleanup is its own.
SpecialEnds ==
  /\ special = "told" /\ At("delay") /\ ThreadsRun
  /\ cleanup.by = "stop"
  /\ special' = "gone"
  /\ UNCHANGED <<vars, g_is_pops_context, above, unstarted, main, power, usb, hooked,
                 cleanup, history, padVars, gameVars>>

should_yield_to_pops_context == ~g_is_pops_context /\ loaded

YieldToPops ==
  /\ special = "run"
  /\ should_yield_to_pops_context /\ Kept
  /\ cleanup' = [by |-> "special", next |-> "begun"]
  /\ UNCHANGED <<vars, g_is_pops_context, above, threads, usb, hooked, history, padVars,
                 gameVars>>

\* module_stop or module_reboot_before.  Once a cleanup has begun they return at
\* once; what their caller unloads under it is not followed.
module_stop ==
  /\ unstarted = 0
  /\ Kept
  /\ StopRuns
  /\ cleanup' = [by |-> "stop", next |-> "begun"]
  /\ UNCHANGED <<vars, g_is_pops_context, above, threads, usb, hooked, history, padVars,
                 gameVars>>

-----------------------------------------------------------------------------
(***************************************************************************)
(* cleanup_module                                                          *)
(***************************************************************************)

\* It goes on unless a thread before it can.
CleanupStep(at, then) ==
  /\ cleanup.next = at
  /\ cleanup' = [cleanup EXCEPT !.next = then]
  /\ cleanup.by = "stop" => StopRuns

\* g_special_thread_run is cleared ...
CleanupTells ==
  /\ CleanupStep("begun", "input")
  /\ special' = IF special = "run" THEN "told" ELSE special
  /\ UNCHANGED <<vars, g_is_pops_context, above, unstarted, main, power, usb, hooked,
                 history, padVars, gameVars>>

\* ... a log before the input is reset.
CleanupInput ==
  /\ CleanupStep("input", "gate")
  /\ reset_remote_input_state
  /\ PadReset
  /\ UNCHANGED <<g_is_pops_context, above, threads, usb, hooked, history, seen>>

\* special_button_thread is on its way to a patch.
Patching ==
  /\ special \in {"run", "told"}
  /\ pc \in {"search", "match", "save", "install", "installed", "edge", "remember",
            "patch", "word0", "word1"}

\* remove_pops_gate_hook: two words of POPS's, as in Remove.
CleanupGate ==
  /\ \/ /\ state = Installed
        /\ \/ /\ CleanupStep("gate", "gate1")
              /\ code' = [code EXCEPT ![1] = trampoline[1]] /\ UNCHANGED <<state, gate>>
           \/ /\ CleanupStep("gate1", "gate2")
              /\ code' = [code EXCEPT ![2] = trampoline[2]] /\ UNCHANGED <<state, gate>>
           \/ /\ CleanupStep("gate2", "removed")
              /\ state' = NotTried /\ gate' = NoGate /\ UNCHANGED code
     \/ /\ state # Installed
        /\ CleanupStep("gate", "hooks")
        /\ UNCHANGED <<code, state, gate>>
  /\ caught' = IF cleanup.next = "gate" THEN Patching ELSE caught
  /\ UNCHANGED <<inputs, loaded, trampoline, locals, overtaken, g_is_pops_context,
                 above, threads, usb, hooked, amid, padVars, gameVars>>

\* Mutant: the latches are forgotten.
Unhooked_Buffers == hooked \ BufferFunctions
Unhooked == {}
restore_ctrl_hooks ==
  /\ CleanupStep("hooks", "intercept") \/ CleanupStep("removed", "intercept")
  /\ hooked' = Unhooked
  /\ UNCHANGED <<vars, g_is_pops_context, above, threads, usb, history, padVars, gameVars>>

CleanupIntercept ==
  /\ CleanupStep("intercept", "main")
  /\ intercept' = FALSE
  /\ UNCHANGED <<vars, g_is_pops_context, above, threads, usb, hooked, history, buttons,
                 latch, gameVars>>

\* Threads that have not been created yet are not terminated.
Killed(thread) == IF thread = "none" THEN "none" ELSE "gone"

CleanupThreads ==
  /\ \/ /\ CleanupStep("main", "special")
        /\ main' = Killed(main) /\ UNCHANGED <<special, power>>
     \/ /\ CleanupStep("special", "power")
        /\ special' = IF cleanup.by = "special" THEN special ELSE Killed(special)
        /\ UNCHANGED <<main, power>>
     \/ /\ CleanupStep("power", "usb")
        /\ power' = Killed(power) /\ UNCHANGED <<main, special>>
  /\ UNCHANGED <<vars, g_is_pops_context, above, unstarted, usb, hooked, history, padVars,
                 gameVars>>

\* special_button_thread ends after its own cleanup.
CleanupUsb ==
  /\ CleanupStep("usb", "done")
  /\ usb' = FALSE
  /\ special' = IF cleanup.by = "special" THEN "gone" ELSE special
  /\ UNCHANGED <<vars, g_is_pops_context, above, unstarted, main, power, hooked, history,
                 padVars, gameVars>>

cleanup_module ==
  \/ CleanupTells \/ CleanupInput \/ CleanupGate \/ restore_ctrl_hooks
  \/ CleanupIntercept \/ CleanupThreads \/ CleanupUsb

-----------------------------------------------------------------------------
LifeNext ==
  \/ module_start \/ main_thread \/ ctrl_read_latch_hook
  \/ PollInPops \/ SpecialEnds \/ YieldToPops
  \/ module_stop \/ cleanup_module
  \/ PopsLoads /\ UNCHANGED life

LifeSpec == LifeInit /\ [][LifeNext]_lifeVars

\* As FairSpec: special_button_thread polls for ever.
LifeFairSpec == LifeSpec /\ WF_lifeVars(PollInPops)

-----------------------------------------------------------------------------
(***************************************************************************)
(* Properties                                                              *)
(***************************************************************************)

\* Once cleanup_module is through, nothing of the plugin is left: POPS runs its
\* own code, no function is hooked, HOME is the system's, no thread and no
\* driver.  Excepted are cleanups amid which main_thread took a step, or
\* module_start started a thread, and POPS's words when they were torn before or
\* when special_button_thread was on its way to a patch.
NothingLeftBehind ==
  cleanup.next = "done" /\ ~amid =>
    /\ hooked = {} /\ ~intercept /\ ~usb
    /\ {main, special, power} \subseteq {"none", "gone"}
    /\ ~overtaken /\ ~caught => code = Words(Original)

\* main.c, of remove_pops_gate_hook: "Undoes the patch above, if installed", for
\* else POPS would jump into memory of a module that is gone.  Excepted are the
\* cleanups in which main_thread may have patched.
PatchUndone ==
  cleanup.next = "done" /\ ~amid /\ ~overtaken => code = Words(Original)

\* What the latches say, of buttons that were not pressed and released.
Pressed == latch.make \ latch.break
Released == latch.break \ latch.make

\* A game that polls the latches (ctrl_read_latch_hook) is told of every press
\* and release of what it is shown, however many events come between two polls;
\* a reset of the input in between may hide those before it, but makes none up.
LatchesTell ==
  [][ctrl_read_latch_hook =>
       /\ Pressed \subseteq seen' /\ Released \subseteq seen
       /\ ~reset => /\ Pressed \subseteq seen' \ seen
                    /\ Released \subseteq seen \ seen'
                    /\ seen' \ seen \subseteq latch.make
                    /\ seen \ seen' \subseteq latch.break]_lifeVars

\* PopsGate's, as long as nothing is cleaned up.
GateMatchesWhileLoaded == Kept => GateMatchesMode
InstalledWhileLoaded == []Kept => InstalledOnceLoaded
PulseEndsWhileLoaded == []Kept => PulseEnds

=============================================================================
