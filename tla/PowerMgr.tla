------------------------------ MODULE PowerMgr ------------------------------
(***************************************************************************)
(* The power manager: touches light the screen, a periodic callback of the *)
(* timer task (priority 1) dims it, turns it off and, if the user wants    *)
(* that, puts the device to deep sleep.  Touches and settings run on the   *)
(* UI task (priority 24), which may preempt the callback anywhere; nothing *)
(* guards the shared variables.                                            *)
(*                                                                         *)
(* Time is counted in periods of the callback.                             *)
(***************************************************************************)
EXTENDS Integers

CONSTANTS
  ClockMod,  \* the millisecond clock wraps here (2^32 ms)
  Timeouts,  \* dim timeouts the user may choose; 0 is never
  DimPcts,   \* dim levels the user may choose
  AutoOffs   \* auto power-off delays the user may choose; 0 is never

ASSUME PowerAssumption ==
  /\ ClockMod \in Nat \ {0}
  /\ Timeouts \subseteq 0 .. ClockMod - 1 /\ 0 \in Timeouts
  /\ AutoOffs \subseteq 0 .. ClockMod - 1 /\ 0 \in AutoOffs
  /\ DimPcts \subseteq 0 .. 100 /\ DimPcts # {}

VARIABLES
  clock,    \* tick count
  due,      \* the callback's period has elapsed
  last,     \* s_last_activity_ms
  state,    \* s_bl_state
  light,    \* backlight level the LEDC channel is at or fading to
  timeout,  \* s_timeout_s
  dim,      \* s_dim_pct
  autoOff,  \* s_auto_off_min
  pc,       \* where the timer callback and power_mgr_power_off are
  seen,     \* the operand, then the difference, read by the callback
  awake,    \* FALSE in deep sleep
  idleFor,  \* history variable: time since the user last did something
  touched,  \* history variable: the user did something during this callback
  raced     \* history variable: the UI task fell between a state and its light

powerVars == <<clock, due, last, state, light, timeout, dim, autoOff, pc, seen, awake,
          idleFor, touched, raced>>

choices == <<timeout, dim, autoOff>>
time == <<clock, due, idleFor>>

Goto(t, place) == pc' = [pc EXCEPT ![t] = place]

(* Where the callback has written one of state and light and not the other. *)
Between == {"applyDim", "applyOff", "markOff"}

NoUpwardFade(pct) == light' = IF pct > light THEN light ELSE pct

(* Up is a fade, down a step; both end at the level asked for. *)
BlApply(pct) == light' = IF pct > 100 THEN 100 ELSE pct

-----------------------------------------------------------------------------
(* The timer callback, a read or a write at a time.                        *)

Now == clock

(* The order in which the operands of the subtraction are read is open. *)
Fire ==
  /\ pc["timer"] = "idle"
  /\ due
  /\ due' = FALSE
  /\ touched' = FALSE
  /\ \/ seen' = Now /\ Goto("timer", "readLast")
     \/ seen' = last /\ Goto("timer", "readTick")
  /\ UNCHANGED <<clock, last, state, light, choices, awake, idleFor, raced>>

Difference ==
  /\ \/ pc["timer"] = "readLast" /\ seen' = (seen - last) % ClockMod
     \/ pc["timer"] = "readTick" /\ seen' = (Now - seen) % ClockMod
  /\ Goto("timer", "autoOff")
  /\ UNCHANGED <<last, state, light, choices, awake, time, touched, raced>>

(* Auto power-off is decided before, and instead of, the backlight. *)
CheckAutoOff ==
  /\ pc["timer"] = "autoOff"
  /\ Goto("timer", IF autoOff > 0 /\ seen >= autoOff THEN "darken"
                   ELSE IF timeout = 0 THEN "idle" ELSE "backlight")
  /\ UNCHANGED <<last, state, light, choices, seen, awake, time, touched, raced>>

ShortDelay(s) == s >= timeout

ExactDelay(s) == s = timeout * 2

DimDelayOver(s) == s >= timeout

OffDelayOver(s) == s >= timeout * 2

SetState ==
  /\ pc["timer"] = "backlight"
  /\ \/ /\ state = "full" /\ DimDelayOver(seen)
        /\ state' = "dim"
        /\ Goto("timer", "applyDim")
        /\ raced' = FALSE
     \/ /\ state = "dim" /\ OffDelayOver(seen)
        /\ state' = "off"
        /\ Goto("timer", "applyOff")
        /\ raced' = FALSE
     \/ /\ state = "full" => ~DimDelayOver(seen)
        /\ state = "dim" => ~OffDelayOver(seen)
        /\ Goto("timer", "idle")
        /\ UNCHANGED <<state, raced>>
  /\ UNCHANGED <<last, light, choices, seen, awake, time, touched>>

ApplyState ==
  /\ \/ pc["timer"] = "applyDim" /\ BlApply(dim)
     \/ pc["timer"] = "applyOff" /\ BlApply(0)
  /\ Goto("timer", "idle")
  /\ UNCHANGED <<last, state, choices, seen, awake, time, touched, raced>>

-----------------------------------------------------------------------------
(* power_mgr_power_off, on either task.                                    *)

Darken(t) ==
  /\ pc[t] = "darken"
  /\ light' = 0
  /\ Goto(t, "markOff")
  /\ UNCHANGED <<last, state, choices, seen, awake, time, touched, raced>>

MarkOff(t) ==
  /\ pc[t] = "markOff"
  /\ state' = "off"
  /\ raced' = (raced \/ (t = "ui" /\ pc["timer"] \in Between))
  /\ Goto(t, "delay")
  /\ UNCHANGED <<last, light, choices, seen, awake, time, touched>>

(* After 150 ms: the BOOT pin becomes the wake-up source, or the power-off *)
(* is given up.                                                            *)
ConfigureWake(t) ==
  /\ pc[t] = "delay"
  /\ Goto(t, "settle") \/ Goto(t, "idle")
  /\ UNCHANGED <<last, state, light, choices, seen, awake, time, touched, raced>>

(* 50 ms later. *)
DeepSleep(t) ==
  /\ pc[t] = "settle"
  /\ awake' = FALSE
  /\ UNCHANGED <<pc, last, state, light, choices, seen, time, touched, raced>>

PowerOff(t) == Darken(t) \/ MarkOff(t) \/ ConfigureWake(t) \/ DeepSleep(t)

-----------------------------------------------------------------------------
(* The user, through the UI task or the BOOT button.                       *)

UserActs == idleFor' = 0 /\ touched' = TRUE

(* A press: the screen comes back to full unless it is full already. *)
Activity ==
  /\ pc["ui"] = "idle"
  /\ UserActs
  /\ last' = Now
  /\ \/ /\ state # "full"
        /\ state' = "full"
        /\ BlApply(100)
     \/ /\ state = "full"
        /\ UNCHANGED <<state, light>>
  /\ raced' = (raced \/ pc["timer"] \in Between)
  /\ UNCHANGED <<clock, due, choices, pc, seen, awake>>

(* A setter assigns and waits for the flash broker to save; the setters of *)
(* the two delays then restart the idle time.                              *)
SetTimeout ==
  /\ pc["ui"] = "idle"
  /\ timeout' \in Timeouts
  /\ touched' = TRUE
  /\ Goto("ui", "save")
  /\ UNCHANGED <<last, state, light, dim, autoOff, seen, awake, time, raced>>

SetAutoOff ==
  /\ pc["ui"] = "idle"
  /\ autoOff' \in AutoOffs
  /\ touched' = TRUE
  /\ Goto("ui", "save")
  /\ UNCHANGED <<last, state, light, timeout, dim, seen, awake, time, raced>>

KeepLast == last' = last

RestartIdle == last' = Now

Saved ==
  /\ pc["ui"] = "save"
  /\ UserActs
  /\ RestartIdle
  /\ Goto("ui", "idle")
  /\ UNCHANGED <<clock, due, state, light, choices, seen, awake, raced>>

ClampDim(pct) == IF pct < 5 THEN 5 ELSE IF pct > 50 THEN 50 ELSE pct

(* The dim level does not restart the idle time. *)
SetDimPct ==
  /\ pc["ui"] = "idle"
  /\ \E pct \in DimPcts : dim' = ClampDim(pct)
  /\ UNCHANGED <<last, state, light, timeout, autoOff, pc, seen, awake, time, touched, raced>>

RequestPowerOff ==
  /\ pc["ui"] = "idle"
  /\ Goto("ui", "darken")
  /\ UNCHANGED <<last, state, light, choices, seen, awake, time, touched, raced>>

(* The BOOT button wakes the chip, which starts from the saved settings. *)
Boot ==
  /\ ~awake
  /\ awake' = TRUE
  /\ clock' = 0
  /\ due' = FALSE
  /\ last' = 0
  /\ state' = "full"
  /\ light' = 100
  /\ pc' = [ui |-> "idle", timer |-> "idle"]
  /\ seen' = 0
  /\ idleFor' = 0
  /\ touched' = FALSE
  /\ raced' = FALSE
  /\ UNCHANGED choices

-----------------------------------------------------------------------------
PowerInit ==
  /\ clock = 0
  /\ due = FALSE
  /\ last = 0
  /\ state = "full"
  /\ light = 100
  /\ timeout \in Timeouts
  /\ dim \in {ClampDim(pct) : pct \in DimPcts}
  /\ autoOff \in AutoOffs
  /\ pc = [ui |-> "idle", timer |-> "idle"]
  /\ seen = 0
  /\ awake = TRUE
  /\ idleFor = 0
  /\ touched = FALSE
  /\ raced = FALSE

(* A period passes; the callback is at most one period late. *)
Tick ==
  /\ awake
  /\ ~due
  /\ clock' = (clock + 1) % ClockMod
  /\ due' = TRUE
  /\ idleFor' = IF idleFor < ClockMod THEN idleFor + 1 ELSE idleFor
  /\ UNCHANGED <<last, state, light, choices, pc, seen, awake, touched, raced>>

(* The timer task runs while the UI task is blocked. *)
UiBlocked == pc["ui"] \in {"idle", "save", "delay", "settle"}

TimerStep ==
  /\ awake
  /\ UiBlocked
  /\ Fire \/ Difference \/ CheckAutoOff \/ SetState \/ ApplyState \/ PowerOff("timer")

UserStep ==
  \/ awake /\ (Activity \/ SetTimeout \/ SetAutoOff \/ SetDimPct \/ RequestPowerOff)
  \/ Boot

UiRuns == awake /\ (Saved \/ PowerOff("ui"))

PowerNext == Tick \/ TimerStep \/ UiRuns \/ UserStep

(* Time passes and both tasks run on; nothing obliges the user to act. *)
PowerFairness == WF_powerVars(Tick) /\ WF_powerVars(TimerStep) /\ WF_powerVars(UiRuns)

PowerSpec == PowerInit /\ [][PowerNext]_powerVars /\ PowerFairness

-----------------------------------------------------------------------------
(* Properties.                                                             *)

(* A screen recorded as full is at full light unless a touch fell exactly  *)
(* between the callback's change of state and its change of light: the     *)
(* only way a touched screen stays dark.                                   *)
FullMeansLit ==
  state = "full" /\ ~raced /\ pc["timer"] # "markOff" /\ pc["ui"] # "markOff"
    => light = 100

(* The callback dims the screen only after the timeout and turns it off    *)
(* only after twice the timeout since the user last did something, unless  *)
(* the user did something while this very callback was running.            *)
DarkOnlyWhenIdle ==
  [][pc["timer"] \in {"applyDim", "applyOff"} /\ light' < light
       => \/ touched
          \/ idleFor >= timeout * (IF pc["timer"] = "applyOff" THEN 2 ELSE 1)]_powerVars

(* The device goes to sleep by itself only after the time the user set, or *)
(* if the user did something while the deciding callback was running.      *)
SleepOnlyWhenIdle ==
  [][awake /\ ~awake' /\ pc["timer"] = "settle" /\ pc["ui"] # "settle"
       => touched \/ (autoOff > 0 /\ idleFor >= autoOff)]_powerVars

(* Left alone, a screen with a timeout goes dark and stays dark, whatever  *)
(* the user did before, except after a requested power-off that was given  *)
(* up and that fell between the callback's dim state and its dim light:    *)
(* the screen is then recorded as off and stays dim.                       *)
LeftAloneGoesDark ==
  \/ []<><<UserStep>>_powerVars
  \/ <>[](timeout = 0 \/ light = 0 \/ ~awake \/ (raced /\ state = "off"))

=============================================================================
