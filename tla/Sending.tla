------------------------------ MODULE Sending ------------------------------
(***************************************************************************)
(* Messages of one sender: send_contact tasks, and what Messaging.send     *)
(* does for each.  A message costs a unit of the sender's daily reserve    *)
(* and then one of the monthly reserve of its kind.  A task is not         *)
(* retried.  Metrics.store reads a reserve with one command and sets it,   *)
(* or takes a unit, with another; its notice is a task (module Quota).     *)
(***************************************************************************)
EXTENDS Integers, FiniteSets

CONSTANTS
    Sender,     \* workers
    Address,    \* contacts that messages are delivered to
    Texted,     \* those for text messages; the others are for e-mail
    DailyMax,   \* the grants sms_daily_total and email_daily_total
    MonthlyMax, \* the grants sms_monthly_total and email_monthly_total
    ToUser,     \* a task for a to_uid
    Unset,      \* a reserve that is not there
    MaxTasks,   \* bound: tasks
    Backlog     \* bound: tasks that wait at the start, to one contact

ASSUME SendingAssumption ==
    /\ IsFiniteSet(Sender) /\ Sender # {}
    /\ Texted \subseteq Address
    /\ Unset \notin Int
    /\ {DailyMax, MonthlyMax, MaxTasks, Backlog} \subseteq Nat \ {0}

VARIABLES
    status,  \* per contact: whether it is enabled
    queue,   \* per recipient: tasks that wait
    called,  \* tasks so far
    task,    \* per worker: the task it runs
    left,    \* per kind: what is left of the day and of the month
    stuck,   \* reserves that have no expiration
    delivered, \* per kind: messages delivered since the reserve of each period last expired
    late     \* per contact: messages delivered to it since it was disabled

sendingVars == <<status, queue, called, task, left, stuck, delivered, late>>

Medium(c) == IF c \in Texted THEN "sms" ELSE "email"
Mediums == {"sms", "email"}
Period == {"day", "month"}
Limit(period) == IF period = "day" THEN DailyMax ELSE MonthlyMax
Resting == [step |-> "idle"]
In(w, step) == task[w].step = step
Move(w, step) == task' = [task EXCEPT ![w].step = step]
Ends(w) == task' = [task EXCEPT ![w] = Resting]

NoTasks == [c \in Address \cup {ToUser} |-> 0]

\* Nothing was asked for yet, or tasks to one contact wait since before.
SendingInit ==
    /\ status = [c \in Address |-> "enabled"]
    /\ \/ called = 0 /\ queue = NoTasks
       \/ called = MaxTasks /\ \E c \in Address : queue = [NoTasks EXCEPT ![c] = Backlog]
    /\ task = [w \in Sender |-> Resting]
    /\ left = [m \in Mediums |-> [p \in Period |-> Unset]]
    /\ stuck = {}
    /\ delivered = [m \in Mediums |-> [p \in Period |-> 0]]
    /\ late = [c \in Address |-> 0]

-----------------------------------------------------------------------------
\* func_send, from a request or from Metrics.store for its notice.
Delay(c) ==
    /\ called < MaxTasks /\ called' = called + 1
    /\ queue' = [queue EXCEPT ![c] = @ + 1]
    /\ UNCHANGED <<status, task, left, stuck, delivered, late>>

\* The contact is read; a disabled one gets nothing.
Heeded(c) == status[c] # "disabled"
Begin(w, c) ==
    /\ In(w, "idle") /\ queue[c] > 0
    /\ queue' = [queue EXCEPT ![c] = @ - 1]
    /\ IF Heeded(c) THEN task' = [task EXCEPT ![w] = [step |-> "day", to |-> c]]
                    ELSE UNCHANGED task
    /\ UNCHANGED <<status, called, left, stuck, delivered, late>>

\* With to_uid the query ends in the contact's id, which has no info: the task
\* raises before anything is counted.
BeginForUser(w) ==
    /\ In(w, "idle") /\ queue[ToUser] > 0
    /\ queue' = [queue EXCEPT ![ToUser] = @ - 1]
    /\ UNCHANGED <<status, called, task, left, stuck, delivered, late>>

\* Metrics.store: the reserve is read.
Storing(period) == IF period = "day" THEN "dayStore" ELSE "monthStore"
After(period) == IF period = "day" THEN "month" ELSE "smtp"
Read(w, period) ==
    /\ In(w, period)
    /\ task' = [task EXCEPT ![w] = [step |-> Storing(period), to |-> task[w].to,
                                    seen |-> left[Medium(task[w].to)][period]]]
    /\ UNCHANGED <<status, queue, called, left, stuck, delivered, late>>

\* What was read decides: a reserve that was not there is set, for the period; with
\* nothing left the task ends; else a unit is taken of whatever is there by now.
Counted(w, period) == task[w].seen # Unset /\ task[w].seen < Limit(period)
SetReserve(w, period) ==
    LET m == Medium(task[w].to) IN
    /\ In(w, Storing(period)) /\ ~Counted(w, period)
    /\ left' = [left EXCEPT ![m][period] = Limit(period) - 1]
    /\ stuck' = stuck \ {<<m, period>>}
    /\ task' = [task EXCEPT ![w] = [step |-> After(period), to |-> task[w].to]]
    /\ UNCHANGED <<status, queue, called, delivered, late>>

Spent(w, period) ==
    /\ In(w, Storing(period)) /\ Counted(w, period) /\ task[w].seen <= 0
    /\ Ends(w)
    /\ UNCHANGED <<status, queue, called, left, stuck, delivered, late>>

TakeUnit(w, period) ==
    LET m == Medium(task[w].to)
        gone == left[m][period] = Unset
    IN  /\ In(w, Storing(period)) /\ Counted(w, period) /\ task[w].seen > 0
        /\ left' = [left EXCEPT ![m][period] = IF gone THEN -1 ELSE @ - 1]
        /\ stuck' = IF gone THEN stuck \cup {<<m, period>>} ELSE stuck
        /\ task' = [task EXCEPT ![w] = [step |-> After(period), to |-> task[w].to]]
        /\ UNCHANGED <<status, queue, called, delivered, late>>

\* smtp.sendmail
SendMail(w) ==
    LET c == task[w].to IN
    /\ In(w, "smtp")
    /\ late' = [late EXCEPT ![c] = IF status[c] = "disabled" THEN @ + 1 ELSE @]
    /\ delivered' = [delivered EXCEPT ![Medium(c)] = [p \in Period |-> @[p] + 1]]
    /\ Move(w, "commit")
    /\ UNCHANGED <<status, queue, called, left, stuck>>

\* last_attempted is committed.
Commit(w) ==
    /\ In(w, "commit")
    /\ Ends(w)
    /\ UNCHANGED <<status, queue, called, left, stuck, delivered, late>>

\* An exception (no contact to send from, SMTP, redis or the database) or the end
\* of the worker: what was spent is not given back.
Retried(w) ==                                        \* mutant: the task is retried
    /\ ~In(w, "idle")
    /\ IF In(w, "commit") THEN Move(w, "smtp") ELSE Ends(w)
    /\ UNCHANGED <<status, queue, called, left, stuck, delivered, late>>
Aborted(w) ==
    /\ ~In(w, "idle")
    /\ Ends(w)
    /\ UNCHANGED <<status, queue, called, left, stuck, delivered, late>>

-----------------------------------------------------------------------------
\* The owner edits the contact.
Toggle(c) ==
    /\ status' = [status EXCEPT ![c] = IF @ = "enabled" THEN "disabled" ELSE "enabled"]
    /\ late' = [late EXCEPT ![c] = 0]
    /\ UNCHANGED <<queue, called, task, left, stuck, delivered>>

\* redis: the end of a reserve's period, which one without an expiration has not.
Elapse(m, period) ==
    /\ left[m][period] # Unset /\ <<m, period>> \notin stuck
    /\ left' = [left EXCEPT ![m][period] = Unset]
    /\ delivered' = [delivered EXCEPT ![m][period] = 0]
    /\ UNCHANGED <<status, queue, called, task, stuck, late>>

SendingNext ==
    \/ \E c \in Address \cup {ToUser} : Delay(c)
    \/ \E w \in Sender :
         \/ \E c \in Address : Begin(w, c)
         \/ BeginForUser(w)
         \/ \E period \in Period : \/ Read(w, period) \/ SetReserve(w, period)
                                  \/ Spent(w, period) \/ TakeUnit(w, period)
         \/ SendMail(w) \/ Commit(w) \/ Aborted(w)
    \/ \E c \in Address : Toggle(c)
    \/ \E m \in Mediums, period \in Period : Elapse(m, period)

SendingSpec == SendingInit /\ [][SendingNext]_sendingVars

-----------------------------------------------------------------------------
(***************************************************************************)
(* "if to_contact.status == 'disabled'": the status is read at the start   *)
(* of a task and the message goes out at its end, two reserves later.      *)
(* After a contact was disabled, each worker can still send it one message *)
(* and no more, whatever tasks wait for it.  Since a period ended, each    *)
(* worker may have delivered one message with a unit from before.  One of  *)
(* them set the reserve, with the limit of messages; every other worker    *)
(* may have found it unset too, and sets it again: the limit once more,    *)
(* and the last unit is taken by several, one over for each other worker.  *)
(***************************************************************************)
Overlap == Cardinality(Sender) - 1
SendingBounded ==
    /\ \A c \in Address : late[c] <= Cardinality(Sender)
    /\ \A m \in Mediums, p \in Period :
          delivered[m][p] <= Cardinality(Sender) + Limit(p) + Overlap * (Limit(p) + Overlap)
=============================================================================
