------------------------------ MODULE RamanCore ------------------------------
(***************************************************************************)
(* raman-core: the executor of the devices that have no allocator.  It     *)
(* keeps one active action for all streams together, with a hold and then  *)
(* a cooldown during which the action is reused whatever is received; when *)
(* both are spent, the best matching rule becomes the active action.       *)
(*                                                                         *)
(* A frame is abstracted to the set of program rules whose predicates it   *)
(* satisfies, so a situation here is any subset of the program.            *)
(*                                                                         *)
(* An operator named Bug... is a mutated form of the definition after it.  *)
(***************************************************************************)
EXTENDS Integers, Sequences

CONSTANTS
    Program,       \* CoreProgram.rules: [priority, order, action]
    NoAction,      \* Option::None of active_action
    MaxFrames      \* bound: calls in a behaviour

\* CoreAction: an identifier stands for the three it carries.
CoreActions == [id : Nat, hold_ticks : 0..255, cooldown_ticks : 0..255]

CoreRule == [priority : Int, order : Nat, action : CoreActions]

ASSUME ProgramAssumption == Program \in Seq(CoreRule)
ASSUME NoActionAssumption == NoAction \notin CoreActions
ASSUME MaxFramesAssumption == MaxFrames   \in Nat

VARIABLES
    core,     \* CoreExecutorState
    result,   \* what the last execute returned: at most one CoreDecision
    begun,    \* history: ticks the active action was selected with
    reused,   \* history: ticks it was reused since, <<in hold, in cooldown>>
    frames    \* how many frames were asked for

coreVars == <<core, result, begun, reused, frames>>

Idle == [action |-> NoAction, priority |-> 0, order |-> 0, hold |-> 0,
         cooldown |-> 0]

CoreInit ==
    /\ core = Idle
    /\ result = {}
    /\ begun = [hold |-> 0, cooldown |-> 0]
    /\ reused = [hold |-> 0, cooldown |-> 0]
    /\ frames = 0

\* The loop keeps the first rule of the highest priority and, among those, of
\* the lowest order.
Better(r, s) ==
    r.priority > s.priority \/ (r.priority = s.priority /\ r.order < s.order)

Selects(n, matching) ==
    /\ n \in matching
    /\ \A m \in matching :
          /\ ~Better(Program[m], Program[n])
          /\ m < n => Better(Program[n], Program[m])

Frame == frames < MaxFrames   /\ frames' = frames + 1

\* The temporal branches: the window, hold or cooldown, loses its tick before
\* the active action is looked at.
Serve(window) ==
    /\ core.action # NoAction
    /\ core' = [core EXCEPT ![window] = @ - 1]
    /\ result' = {[priority |-> core.priority, order |-> core.order,
                   action |-> core.action, reused |-> TRUE]}
    /\ reused' = [reused EXCEPT ![window] = @ + 1]
    /\ UNCHANGED begun

ServeHold == Frame /\ core.hold > 0 /\ Serve("hold")

\* The cooldown runs down while the hold still does.
BugServeCooldown == Frame /\ core.cooldown > 0 /\ Serve("cooldown")

ServeCooldown == Frame /\ core.hold = 0 /\ core.cooldown > 0 /\ Serve("cooldown")

Spent == core.action = NoAction \/ (core.hold = 0 /\ core.cooldown = 0)

Select(matching) ==
    /\ Frame /\ Spent
    /\ \E n \in matching :
          LET rule == Program[n]
          IN  /\ Selects(n, matching)
              /\ core' = [action |-> rule.action, priority |-> rule.priority,
                          order |-> rule.order,
                          hold |-> rule.action.hold_ticks,
                          cooldown |-> rule.action.cooldown_ticks]
              /\ result' = {[priority |-> rule.priority, order |-> rule.order,
                             action |-> rule.action, reused |-> FALSE]}
              /\ begun' = [hold |-> rule.action.hold_ticks,
                           cooldown |-> rule.action.cooldown_ticks]
    /\ reused' = [hold |-> 0, cooldown |-> 0]

\* Nothing matches: the stale action is cleared.
SelectNothing ==
    /\ Frame /\ Spent
    /\ core' = Idle
    /\ result' = {}
    /\ begun' = [hold |-> 0, cooldown |-> 0]
    /\ reused' = [hold |-> 0, cooldown |-> 0]

\* stream_tick without a frame to read does not call execute.
NoFrame == Frame /\ result' = {} /\ UNCHANGED <<core, begun, reused>>

CoreNext ==
    \/ ServeHold
    \/ ServeCooldown
    \/ \E matching \in SUBSET DOMAIN Program : Select(matching)
    \/ SelectNothing
    \/ NoFrame

CoreSpec == CoreInit /\ [][CoreNext]_coreVars

-------------------------------------------------------------------------------
(* Properties *)

\* Both windows of the active action are served to the last tick, the hold
\* before the cooldown: what was reused and what is left add up to what the
\* action was selected with, the cooldown is untouched while hold ticks are
\* left, and without an active action there is no window to serve (execute,
\* "keep temporal counters authoritative").
CoreWindowsAreExact ==
    /\ core.hold >= 0 /\ core.cooldown >= 0
    /\ \A w \in {"hold", "cooldown"} : core[w] + reused[w] = begun[w]
    /\ core.hold > 0 => reused.cooldown = 0
    /\ core.action = NoAction => core = Idle
    /\ core.action # NoAction =>
          /\ begun.hold = core.action.hold_ticks
          /\ begun.cooldown = core.action.cooldown_ticks
===============================================================================
