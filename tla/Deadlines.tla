------------------------------ MODULE Deadlines ------------------------------
(***************************************************************************)
(* The clocks of services/dsr_sla.py, incident_clock.py and                *)
(* review_schedule.py, and who reads them: the lists of dsr.py,            *)
(* incidents.py and model_cards.py, and a worker, outside the repository,  *)
(* that the docstrings of these functions speak of.  Time goes by quarters *)
(* of a day, in which every bound of the code is a whole number.           *)
(***************************************************************************)
EXTENDS Integers

CONSTANTS
    Day,            \* quarters of a day
    ReviewAfter     \* the card is to be reviewed so long after the request came

VARIABLES
    clock,          \* since a request, an incident and a card came to be
    sinceRun,       \* since the worker ran
    escalated,      \* thresholds the request was escalated at
    reminded,       \* reminders sent for the card
    listed          \* the worker found the request in the escalation queue

deadlineVars == <<clock, sinceRun, escalated, reminded, listed>>

Threshold == {7, 3, 1}
Window == {"30d", "7d", "0d"}

-----------------------------------------------------------------------------
RemainingDays == 30 * Day - clock

SlaBand ==
    CASE RemainingDays < 0 -> "overdue"
      [] RemainingDays \in 0 .. Day -> "red"
      [] RemainingDays \in Day + 1 .. 3 * Day -> "amber"
      [] RemainingDays \in 3 * Day + 1 .. 7 * Day -> "yellow"
      [] OTHER -> "green"

\* Mutant: the threshold itself is left out.
EscalationDue_Strict(t) == 0 < RemainingDays /\ RemainingDays < t * Day

EscalationDue(t) == 0 < RemainingDays /\ RemainingDays <= t * Day

\* The queue with escalation=true.
InEscalationQueue == RemainingDays \in 0 .. 7 * Day

\* The incident's 72 hours.
RemainingToDeadline == 3 * Day - clock

IncidentBand ==
    CASE RemainingToDeadline <= 0 -> "overdue"
      [] RemainingToDeadline > 0 /\ 4 * RemainingToDeadline <= Day -> "red"
      [] 4 * RemainingToDeadline > Day /\ RemainingToDeadline <= Day -> "amber"
      [] OTHER -> "green"

FiresAt == [w \in Window |->
               CASE w = "30d" -> ReviewAfter - 30 * Day
                 [] w = "7d" -> ReviewAfter - 7 * Day
                 [] w = "0d" -> ReviewAfter]

RemindersDue == {w \in Window : FiresAt[w] - clock \in -Day .. Day}

ReviewBand ==
    CASE clock > ReviewAfter -> "overdue"
      [] ReviewAfter - clock \in 0 .. 7 * Day -> "red"
      [] ReviewAfter - clock \in 7 * Day + 1 .. 30 * Day -> "amber"
      [] OTHER -> "green"

-----------------------------------------------------------------------------
Init ==
    /\ clock = 0
    /\ sinceRun \in 0 .. Day
    /\ escalated = {} /\ reminded = {} /\ listed = FALSE

\* The worker runs daily, at any hour.
Run ==
    /\ sinceRun > 0
    /\ sinceRun' = 0
    /\ escalated' = escalated \cup {t \in Threshold : EscalationDue(t)}
    /\ reminded' = reminded \cup RemindersDue
    /\ listed' = (listed \/ InEscalationQueue)
    /\ UNCHANGED clock

Tick ==
    /\ sinceRun < Day
    /\ clock < ReviewAfter + 2 * Day
    /\ clock' = clock + 1
    /\ sinceRun' = sinceRun + 1
    /\ UNCHANGED <<escalated, reminded, listed>>

Next == Run \/ Tick

Spec == Init /\ [][Next]_deadlineVars

-----------------------------------------------------------------------------
\* A request past its deadline was escalated at each threshold and stood in the
\* queue; no reminder is past without having been found due.
NothingIsMissed ==
    /\ RemainingDays <= 0 => escalated = Threshold /\ listed
    /\ \A w \in Window : clock > FiresAt[w] + Day => w \in reminded

\* Bounds that are written apart meet: what is escalated, queued or reminded of
\* bears a badge that says so.
BadgesAgree ==
    /\ EscalationDue(7) => SlaBand \in {"yellow", "amber", "red"}
    /\ EscalationDue(3) => SlaBand \in {"amber", "red"}
    /\ EscalationDue(1) => SlaBand = "red"
    /\ InEscalationQueue <=> SlaBand \in {"yellow", "amber", "red"}
    /\ IncidentBand = "overdue" <=> RemainingToDeadline <= 0
    /\ "0d" \in RemindersDue => ReviewBand \in {"red", "overdue"}
    /\ "7d" \in RemindersDue => ReviewBand \in {"amber", "red"}

\* REQ-CPL-013, REQ-CPL-020: at whatever hours a daily worker runs, nothing is
\* missed, and the badges agree (dsr_sla.py:28-55, review_schedule.py:36-63).
DeadlinesKept == NothingIsMissed /\ BadgesAgree
=============================================================================
