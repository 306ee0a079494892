---------------------------- MODULE Notifications ----------------------------
(* Telegram notifications: the dispatcher every event site calls            *)
(* (lib/notifications.ts), the owner's test, replay and rule edits          *)
(* (admin/notifications/actions.ts) and the worker that delivers            *)
(* (workers/notifications.ts).                                              *)
(*                                                                          *)
(* Every await of the code is a step boundary.  Time is a small counter:    *)
(* the throttle interval and the dedup bucket only compare instants.  A     *)
(* message body is abstracted away; a log row is known by its unique index  *)
(* (event, subject, bucket, chat).  Which settings loadSettings may return  *)
(* is the subject of SettingsCache: here it returns any section.            *)
EXTENDS Naturals, Sequences, FiniteSets

CONSTANTS
    Event,          \* event types
    Ruled,          \* those with a row in notification_rules
    Covered,        \* TELEGRAM_EVENT_KEYS: gated by settings.telegram.events
    Thresholded,    \* events whose helper reads a threshold first
    Test,           \* the event of testNotification
    Subject,        \* share token, viewer, album or IP inside a dedup key
    Chat, NoChat,   \* Telegram chats, and the empty chat id
    EnvChat,        \* TELEGRAM_CHAT_ID
    Setting,        \* the telegram sections loadSettings may return
    BucketLen,      \* [Event -> Nat]: width of the dedup bucket, 0 = none
    Interval,       \* the min_interval_seconds an owner may set
    Dispatches,     \* dispatching requests, numbered as they begin
    EventOf, SubjectOf, CountOf,  \* what each dispatch reports
    Tester, Replayer,             \* owner requests
    Handlers,       \* invocations of handleNotificationJob alive at once
    MaxJob,         \* pg-boss jobs
    RetryLimit,     \* retryLimit of the queue
    MaxCalls,       \* dispatches, tests and replays that begin
    MaxTime,
    MaxTrouble      \* rule edits and faults: calls that throw, lost answers,
                    \* crashes, overrun jobs

Dispatch == 1..Dispatches
Handler == 1..Handlers
Caller == Dispatch \cup Tester \cup Replayer
Job == 1..MaxJob
Time == 0..MaxTime
Bucket == 0..MaxTime
RowId == Event \X Subject \X Bucket \X Chat
NoRow == <<>>
Status == {"none", "queued", "sent", "failed", "skipped"}

ASSUME ConstantsAssumption ==
    /\ Ruled \subseteq Event /\ Covered \subseteq Event
    /\ Test \in Event /\ Test \notin Ruled
    /\ NoChat \notin Chat /\ EnvChat \in Chat \cup {NoChat}
    /\ Setting \subseteq [chat : Chat \cup {NoChat}, enabled : BOOLEAN,
                          events : SUBSET Covered]
    /\ Setting # {} /\ Subject # {}
    /\ BucketLen \in [Event -> Nat] /\ Interval \subseteq Nat
    /\ EventOf \in [Dispatch -> Event] /\ SubjectOf \in [Dispatch -> Subject]
    /\ CountOf \in [Dispatch -> Nat]
    /\ {Dispatches, Handlers, MaxJob} \subseteq Nat /\ RetryLimit \in Nat
    /\ {MaxCalls, MaxTime, MaxTrouble} \subseteq Nat
    /\ Dispatch \cap (Tester \cup Replayer) = {} /\ Tester \cap Replayer = {}

VARIABLES
    now,
    rules,      \* notification_rules
    log,        \* notification_log by unique index
    job,        \* the notifications queue
    call,       \* dispatching and owner requests in flight
    hand,       \* handler invocations
    token,      \* whether the worker has TELEGRAM_BOT_TOKEN
    accepted,   \* messages Telegram took, by row (the world outside)
    unrecorded, \* of those, attempts that ended without writing 'sent' (ghost)
    stranded,   \* rows whose job was never sent or ran out of retries (ghost)
    count       \* faults, handlers that lost their job (overruns), and rule
                \* edits so far

notifyVars == <<now, rules, log, job, call, hand, token,
                accepted, unrecorded, stranded, count>>

Idle == [pc |-> "idle", row |-> NoRow, looked |-> {}, start |-> 0, interval |-> 0]
IdleHand == [pc |-> "idle", job |-> 0, row |-> NoRow, took |-> FALSE]

NotifyTypeOK ==
    /\ now \in Time
    /\ rules \in [Ruled -> [enabled : BOOLEAN, interval : Nat, min : Nat]]
    /\ log \in [RowId -> [status : Status, at : Time, by : Caller \cup {NoChat}]]
    /\ job \in [Job -> [state : {"free", "queued", "active", "done", "dead"},
                        row : RowId \cup {NoRow}, tries : Nat]]
    /\ call \in [Caller -> [pc : {"idle", "min", "load", "rule", "throttle", "insert", "send", "done"},
                            row : RowId \cup {NoRow},
                            looked : SUBSET RowId, start : Time, interval : Nat]]
    /\ hand \in [Handler -> [pc : {"idle", "read", "skip", "limit", "post", "sent",
                                   "failed", "bump", "return", "throw"},
                             job : 0..MaxJob, row : RowId \cup {NoRow}, took : BOOLEAN]]
    /\ token \in BOOLEAN
    /\ accepted \in [RowId -> Nat] /\ unrecorded \in [RowId -> Nat]
    /\ stranded \subseteq RowId
    /\ count \in [faults : Nat, overruns : Nat, edits : Nat]

NotifyInit ==
    /\ now = 0
    /\ \E i \in Interval : rules = [e \in Ruled |-> [enabled |-> TRUE, interval |-> i, min |-> 2]]
    /\ log = [r \in RowId |-> [status |-> "none", at |-> 0, by |-> NoChat]]
    /\ job = [j \in Job |-> [state |-> "free", row |-> NoRow, tries |-> 0]]
    /\ call = [c \in Caller |-> Idle]
    /\ hand = [h \in Handler |-> IdleHand]
    /\ token \in BOOLEAN
    /\ accepted = [r \in RowId |-> 0]
    /\ unrecorded = [r \in RowId |-> 0]
    /\ stranded = {}
    /\ count = [faults |-> 0, overruns |-> 0, edits |-> 0]

-----------------------------------------------------------------------------
(* dispatchNotification.                                                    *)

\* What a section lets event e be sent to; NoChat: skipped.
ChatFor(section, e) ==
    IF section.chat = NoChat THEN EnvChat
    ELSE IF section.enabled /\ (e \in Covered => e \in section.events) THEN section.chat
    ELSE NoChat

BucketOf(e, t) == IF BucketLen[e] = 0 THEN 0 ELSE t \div BucketLen[e]

DispatchUnchanged ==
    UNCHANGED <<now, rules, log, job, hand, token, accepted, unrecorded, stranded, count>>

MayTrouble == count.faults + count.edits < MaxTrouble

\* A bound: a call begins while there is a job left for it to send.
MayBegin(c) ==
    /\ call[c].pc = "idle"
    /\ Cardinality({d \in Caller : call[d].pc \notin {"idle", "done"}})
         < Cardinality({j \in Job : job[j].state = "free"})
    /\ Cardinality({d \in Caller : call[d].pc # "idle"}) < MaxCalls

\* A notify helper is called; those with a threshold read their rule first.
Begin(c) ==
    /\ c \in Dispatch /\ MayBegin(c)
    /\ \A d \in 1..(c - 1) : call[d].pc # "idle"
    /\ call' = [call EXCEPT ![c].start = now,
                  ![c].pc = IF EventOf[c] \in Thresholded THEN "min" ELSE "load"]
    /\ DispatchUnchanged

\* notifyFavoritesBurst, recordIpTokenHit: below the threshold nothing is
\* sent; the dedup bucket is computed after the rule was read.
CheckMin(c) ==
    /\ c \in Dispatch /\ call[c].pc = "min"
    /\ call' = [call EXCEPT ![c].start = now,
                  ![c].pc = IF EventOf[c] \in Ruled /\ CountOf[c] < rules[EventOf[c]].min
                            THEN "done" ELSE "load"]
    /\ DispatchUnchanged

\* loadSettings answers and the settings gate is applied.
LoadSettings(c) ==
    /\ c \in Dispatch /\ call[c].pc = "load"
    /\ \E section \in Setting :
         LET e == EventOf[c]
             chat == ChatFor(section, e)
         IN call' = [call EXCEPT ![c] =
              IF chat = NoChat THEN [@ EXCEPT !.pc = "done"]
              ELSE [@ EXCEPT !.pc = "rule",
                      !.row = <<e, SubjectOf[c], BucketOf(e, call[c].start), chat>>]]
    /\ DispatchUnchanged

ReadRule(c) ==
    /\ c \in Dispatch /\ call[c].pc = "rule"
    /\ LET e == EventOf[c]
       IN call' = [call EXCEPT ![c] =
              IF e \notin Ruled \/ ~rules[e].enabled THEN [@ EXCEPT !.pc = "done"]
              ELSE [@ EXCEPT !.interval = rules[e].interval,
                      !.pc = IF rules[e].interval > 0 THEN "throttle" ELSE "insert"]]
    /\ DispatchUnchanged

Logged == {r \in RowId : log[r].status # "none"}
SameStream(r, q) == r[1] = q[1] /\ r[4] = q[4]

\* Mutant: only delivered rows count against the interval.
RecentSentRows(row, interval, t) ==
    {q \in Logged : log[q].status = "sent" /\ SameStream(q, row) /\ log[q].at + interval > t}

\* Rows of the stream younger than the interval, at time t.
RecentRows(row, interval, t) ==
    {q \in Logged : SameStream(q, row) /\ log[q].at + interval > t}

CheckThrottle(c) ==
    /\ c \in Dispatch /\ call[c].pc = "throttle"
    /\ LET recent == RecentRows(call[c].row, call[c].interval, now)
       IN call' = [call EXCEPT ![c].looked = Logged,
                     ![c].pc = IF recent = {} THEN "insert" ELSE "done"]
    /\ DispatchUnchanged

\* INSERT ... ON CONFLICT DO NOTHING: only the first writer goes on to send.
InsertRow(c, row) ==
    IF log[row].status = "none"
    THEN /\ log' = [log EXCEPT ![row] = [status |-> "queued", at |-> now, by |-> c]]
         /\ call' = [call EXCEPT ![c].pc = "send", ![c].row = row]
    ELSE /\ call' = [call EXCEPT ![c].pc = "done"]
         /\ UNCHANGED log

InsertLog(c) ==
    /\ c \in Dispatch /\ call[c].pc = "insert"
    /\ InsertRow(c, call[c].row)
    /\ UNCHANGED <<now, rules, job, hand, token, accepted,
                   unrecorded, stranded, count>>

\* testNotification: no settings gate, no rule, one row per minute.
TestInsert(c) ==
    /\ c \in Tester /\ MayBegin(c)
    /\ EnvChat # NoChat
    /\ \E subject \in {CHOOSE s \in Subject : TRUE} :
         InsertRow(c, <<Test, subject, BucketOf(Test, now), EnvChat>>)
    /\ UNCHANGED <<now, rules, job, hand, token, accepted,
                   unrecorded, stranded, count>>

\* replayFailed: only a failed or skipped row goes back to the queue.
Replay(c) ==
    /\ c \in Replayer /\ MayBegin(c)
    /\ \E r \in RowId :
         /\ log[r].status \in {"failed", "skipped"}
         /\ log' = [log EXCEPT ![r].status = "queued"]
         /\ call' = [call EXCEPT ![c].pc = "send", ![c].row = r]
         /\ stranded' = stranded \ {r}
    /\ UNCHANGED <<now, rules, job, hand, token, accepted,
                   unrecorded, count>>

\* boss.send: a new job, the next id.
SendJob(c) ==
    /\ call[c].pc = "send"
    /\ \E j \in Job :
         /\ job[j].state = "free"
         /\ \A k \in 1..(j - 1) : job[k].state # "free"
         /\ job' = [job EXCEPT ![j] = [state |-> "queued", row |-> call[c].row, tries |-> 0]]
    /\ call' = [call EXCEPT ![c].pc = "done"]
    /\ UNCHANGED <<now, rules, log, hand, token, accepted,
                   unrecorded, stranded, count>>

\* A query or boss.send throws: safeDispatch swallows it, an owner action
\* reports it; either way nothing of the call is undone.
CallFails(c) ==
    /\ call[c].pc \in {"min", "load", "rule", "throttle", "insert", "send"}
    /\ MayTrouble
    /\ count' = [count EXCEPT !.faults = @ + 1]
    /\ call' = [call EXCEPT ![c].pc = "done"]
    /\ stranded' = IF call[c].pc = "send" THEN stranded \cup {call[c].row} ELSE stranded
    /\ UNCHANGED <<now, rules, log, job, hand, token,
                   accepted, unrecorded>>

\* updateRule.
UpdateRule(e) ==
    /\ e \in Ruled
    /\ MayTrouble
    /\ count' = [count EXCEPT !.edits = @ + 1]
    /\ \E on \in BOOLEAN, i \in Interval :
         rules' = [rules EXCEPT ![e].enabled = on, ![e].interval = i]
    /\ UNCHANGED <<now, log, job, call, hand, token,
                   accepted, unrecorded, stranded>>

-----------------------------------------------------------------------------
(* The worker: boss.work takes one job at a time; handleNotificationJob.    *)

WorkerUnchanged == UNCHANGED <<now, rules, call, token>>

\* A handler that outlived its job keeps running; its loop has moved on.
Attending(h) == hand[h].pc # "idle" /\ job[hand[h].job].state = "active"

Fetch(h) ==
    /\ hand[h].pc = "idle" /\ \A g \in 1..(h - 1) : hand[g].pc # "idle"
    /\ \A g \in Handler : ~Attending(g)
    /\ \E j \in Job :
         /\ job[j].state = "queued"
         /\ job' = [job EXCEPT ![j].state = "active"]
         /\ hand' = [hand EXCEPT ![h] = [pc |-> "read", job |-> j, row |-> job[j].row,
                                         took |-> FALSE]]
    /\ UNCHANGED <<log, accepted, unrecorded, stranded, count>>
    /\ WorkerUnchanged

\* Mutant: the status is not looked at.
ReadRowAlways(h) ==
    /\ hand[h].pc = "read"
    /\ hand' = [hand EXCEPT ![h].pc = IF token THEN "limit" ELSE "skip"]
    /\ UNCHANGED <<log, job, accepted, unrecorded, stranded, count>>
    /\ WorkerUnchanged

\* The row's status is read once, before the limiter's wait and the post.
ReadRow(h) ==
    /\ hand[h].pc = "read"
    /\ hand' = [hand EXCEPT ![h].pc =
                  IF log[hand[h].row].status = "sent" THEN "return"
                  ELSE IF ~token THEN "skip"
                  ELSE "limit"]
    /\ UNCHANGED <<log, job, accepted, unrecorded, stranded, count>>
    /\ WorkerUnchanged

SetStatus(h, status) == log' = [log EXCEPT ![hand[h].row].status = status]

MarkSkipped(h) ==
    /\ hand[h].pc = "skip"
    /\ SetStatus(h, "skipped")
    /\ hand' = [hand EXCEPT ![h].pc = "return"]
    /\ UNCHANGED <<job, accepted, unrecorded, stranded, count>>
    /\ WorkerUnchanged

\* getLimiter().acquire() returns, at once or after its wait.
Acquire(h) ==
    /\ hand[h].pc = "limit"
    /\ hand' = [hand EXCEPT ![h].pc = "post"]
    /\ UNCHANGED <<log, job, accepted, unrecorded, stranded, count>>
    /\ WorkerUnchanged

\* postToTelegram: accepted, refused for good (4xx), or to be retried
\* (429, 5xx, no connection).
Post(h) ==
    /\ hand[h].pc = "post"
    /\ \/ /\ hand' = [hand EXCEPT ![h].pc = "sent", ![h].took = TRUE]
          /\ accepted' = [accepted EXCEPT ![hand[h].row] = @ + 1]
       \/ /\ \E pc \in {"failed", "bump"} : hand' = [hand EXCEPT ![h].pc = pc]
          /\ UNCHANGED accepted
    /\ UNCHANGED <<log, job, unrecorded, stranded, count>>
    /\ WorkerUnchanged

\* Telegram takes the message and the answer is lost: fetch throws.
PostAnswerLost(h) ==
    /\ hand[h].pc = "post"
    /\ MayTrouble
    /\ count' = [count EXCEPT !.faults = @ + 1]
    /\ hand' = [hand EXCEPT ![h].pc = "bump"]
    /\ accepted' = [accepted EXCEPT ![hand[h].row] = @ + 1]
    /\ unrecorded' = [unrecorded EXCEPT ![hand[h].row] = @ + 1]
    /\ UNCHANGED <<log, job, stranded>>
    /\ WorkerUnchanged

\* UPDATE ... 'sent' / 'failed': unconditional.
MarkSent(h) ==
    /\ hand[h].pc = "sent"
    /\ SetStatus(h, "sent")
    /\ hand' = [hand EXCEPT ![h].pc = "return", ![h].took = FALSE]
    /\ UNCHANGED <<job, accepted, unrecorded, stranded, count>>
    /\ WorkerUnchanged

MarkFailed(h) ==
    /\ hand[h].pc = "failed"
    /\ SetStatus(h, "failed")
    /\ hand' = [hand EXCEPT ![h].pc = "return"]
    /\ UNCHANGED <<job, accepted, unrecorded, stranded, count>>
    /\ WorkerUnchanged

\* The UPDATE throws inside the try: the catch bumps attempts and rethrows.
MarkThrows(h) ==
    /\ hand[h].pc \in {"sent", "failed"}
    /\ MayTrouble
    /\ count' = [count EXCEPT !.faults = @ + 1]
    /\ hand' = [hand EXCEPT ![h].pc = "bump", ![h].took = FALSE]
    /\ unrecorded' = [unrecorded EXCEPT ![hand[h].row] = @ + IF hand[h].took THEN 1 ELSE 0]
    /\ UNCHANGED <<log, job, accepted, stranded>>
    /\ WorkerUnchanged

\* Mutant: the catch does not rethrow.
BumpSwallows(h) ==
    /\ hand[h].pc = "bump"
    /\ hand' = [hand EXCEPT ![h].pc = "return"]
    /\ UNCHANGED <<log, job, accepted, unrecorded, stranded, count>>
    /\ WorkerUnchanged

\* The catch: attempts + 1 and last_error, the status stays; then it throws.
Bump(h) ==
    /\ hand[h].pc = "bump"
    /\ hand' = [hand EXCEPT ![h].pc = "throw"]
    /\ UNCHANGED <<log, job, accepted, unrecorded, stranded, count>>
    /\ WorkerUnchanged

\* pg-boss knows a job, not who runs it: a handler that outlived its job ends
\* the attempt of the one that fetched it since.
TakesAway(h) == Attending(h) /\ \E g \in Handler \ {h} : hand[g].job = hand[h].job
Loses(h) == count' = [count EXCEPT !.overruns = @ + IF TakesAway(h) THEN 1 ELSE 0]

\* The handler returned: pg-boss completes the job, unless it expired.
Complete(h) ==
    /\ hand[h].pc = "return"
    /\ job' = IF Attending(h) THEN [job EXCEPT ![hand[h].job].state = "done"] ELSE job
    /\ hand' = [hand EXCEPT ![h] = IdleHand]
    /\ Loses(h)
    /\ UNCHANGED <<log, accepted, unrecorded, stranded>>
    /\ WorkerUnchanged

\* Mutant: a job that failed once is given up without a word.
FailedForGood(j) ==
    /\ job' = [job EXCEPT ![j].state = "done"]
    /\ UNCHANGED stranded

\* pg-boss puts a failed or expired job back, or gives it up.
Failed(j) ==
    \/ /\ job[j].tries < RetryLimit
       /\ job' = [job EXCEPT ![j].state = "queued", ![j].tries = @ + 1]
       /\ UNCHANGED stranded
    \/ /\ job[j].tries >= RetryLimit
       /\ job' = [job EXCEPT ![j].state = "dead"]
       /\ stranded' = stranded \cup {job[j].row}

Throw(h) ==
    /\ hand[h].pc = "throw"
    /\ IF Attending(h) THEN Failed(hand[h].job) ELSE UNCHANGED <<job, stranded>>
    /\ hand' = [hand EXCEPT ![h] = IdleHand]
    /\ Loses(h)
    /\ UNCHANGED <<log, accepted, unrecorded>>
    /\ WorkerUnchanged

\* pg-boss expires an active job: the worker that held it is gone.
ExpireJob(j) ==
    /\ job[j].state = "active"
    /\ \A h \in Handler : hand[h].job # j
    /\ Failed(j)
    /\ UNCHANGED <<log, hand, accepted, unrecorded, count>>
    /\ WorkerUnchanged

\* Or the handler hangs (the Telegram fetch has no timeout) and runs on.
Overrun(j) ==
    /\ job[j].state = "active"
    /\ \E h \in Handler : hand[h].job = j
    /\ MayTrouble
    /\ count' = [count EXCEPT !.faults = @ + 1, !.overruns = @ + 1]
    /\ Failed(j)
    /\ UNCHANGED <<log, hand, accepted, unrecorded>>
    /\ WorkerUnchanged

\* The worker dies and restarts, perhaps with another environment.
Crash ==
    /\ MayTrouble
    /\ count' = [count EXCEPT !.faults = @ + 1]
    /\ hand' = [h \in Handler |-> IdleHand]
    /\ unrecorded' = [r \in RowId |-> unrecorded[r] +
                        Cardinality({h \in Handler : hand[h].row = r /\ hand[h].took})]
    /\ token' \in BOOLEAN
    /\ UNCHANGED <<now, rules, log, job, call, accepted, stranded>>

Tick ==
    /\ now < MaxTime
    /\ now' = now + 1
    /\ UNCHANGED <<rules, log, job, call, hand, token,
                   accepted, unrecorded, stranded, count>>

-----------------------------------------------------------------------------
CallStep(c) ==
    \/ Begin(c) \/ CheckMin(c) \/ LoadSettings(c)
    \/ ReadRule(c) \/ CheckThrottle(c) \/ InsertLog(c) \/ TestInsert(c) \/ Replay(c)
    \/ SendJob(c) \/ CallFails(c)
HandlerStep(h) ==
    \/ Fetch(h) \/ ReadRow(h) \/ MarkSkipped(h) \/ Acquire(h) \/ Post(h)
    \/ MarkSent(h) \/ MarkFailed(h) \/ Bump(h) \/ Complete(h) \/ Throw(h)
HandlerFault(h) == PostAnswerLost(h) \/ MarkThrows(h)

NotifyNext ==
    \/ Tick \/ Crash
    \/ \E c \in Caller : CallStep(c)
    \/ \E e \in Ruled : UpdateRule(e)
    \/ \E h \in Handler : HandlerStep(h) \/ HandlerFault(h)
    \/ \E j \in Job : ExpireJob(j) \/ Overrun(j)

NotifySpec == NotifyInit /\ [][NotifyNext]_notifyVars

\* The worker runs, a started request goes on, pg-boss sweeps expired jobs.
\* Nothing makes an event happen, a save arrive or the clock move.  There are
\* finitely many of these steps, so fairness of the kinds is enough.
NotifyFairness ==
    /\ WF_notifyVars(\E h \in Handler : HandlerStep(h))
    /\ WF_notifyVars(\E c \in Caller : SendJob(c))
    /\ WF_notifyVars(\E j \in Job : ExpireJob(j))
NotifyFairSpec == NotifySpec /\ NotifyFairness

-----------------------------------------------------------------------------
\* Two rows of one event and chat are closer than the interval only when the
\* second dispatch looked at the log before the first had written it
\* (notifications.ts:126-155): the throttle is no lock.
ThrottleSeesEarlierRows ==
    \A r, q \in Logged :
        /\ r # q /\ SameStream(r, q) /\ log[q].by \in Dispatch
        /\ log[r].at <= log[q].at
        /\ log[q].at < log[r].at + call[log[q].by].interval
        => r \notin call[log[q].by].looked

\* Telegram takes a message a second time only when an earlier attempt ended
\* without its 'sent' being written (a lost answer, a failed UPDATE, a crash)
\* or when a handler ran on without its job, which expired under it or was
\* ended by an older handler of it (workers/notifications.ts:166-231).
MessagesAccounted ==
    \A r \in RowId : accepted[r] <= 1 + unrecorded[r] + count.overruns

InCare(r) ==
    \/ \E j \in Job : job[j].row = r /\ job[j].state \in {"queued", "active"}
    \/ \E c \in Caller : call[c].pc = "send" /\ call[c].row = r
    \/ \E h \in Handler : hand[h].row = r

\* A queued row has a live job or a request about to send one, unless the
\* send threw or the retries ran out (notifications.ts:155-161).
QueuedIsInCare ==
    \A r \in RowId : log[r].status = "queued" => InCare(r) \/ r \in stranded

\* Whatever happens, the queue runs dry: again and again every row that is
\* still queued is one stranded by a send that threw or by exhausted retries.
EveryRowSettles == []<>(\A r \in RowId : log[r].status = "queued" => r \in stranded)
=============================================================================
