----------------------------- MODULE BotSettings -----------------------------
(***************************************************************************)
(* The configurations of the Telegram bots (telegram_configs) and what     *)
(* depends on them in bot-py-service: one polling thread per enabled bot,  *)
(* the scheduler of the daily reports, and the forms of the two panels,    *)
(* which save a configuration as a whole.  What a polling thread does with *)
(* the updates it fetches is the subject of ResellerBot.                   *)
(*                                                                         *)
(* A configuration is its token, whether the bot is enabled, whether it    *)
(* sends daily reports and at which minute.  The chat id is set when the   *)
(* token is; the other columns do not matter here.                         *)
(*                                                                         *)
(* What ResellerBot names too has another name here: the two are reasoned  *)
(* about in one module, BotServiceProofs.                                  *)
(***************************************************************************)
EXTENDS Integers, FiniteSets

CONSTANTS
  BotIds,       \* ids of telegram_configs
  Blank,        \* the empty id, which React saves a new bot under
  Minutes,      \* minutes of a day
  MaxTime,      \* bound: minutes the model lasts
  MaxSaves,     \* bound: configurations the panels save
  MaxFailures   \* bound: restarts and lost answers

ASSUME BotsAssumption == Blank \in BotIds
ASSUME SettingsAssumption ==
  /\ MaxTime \in Nat /\ MaxSaves \in Nat /\ MaxFailures \in Nat
  /\ Minutes \in Nat \ {0}

VARIABLES
  config,     \* the table
  flag,       \* _bot_states[id]["polling"]
  thread,     \* how many threads poll for a bot, by where they are
  starting,   \* bots whose PUT is saved and which it is about to start
  report,     \* the scheduler: what it has listed, and sends or marks
  due,        \* the scheduler's sleep is over
  time, saves, failures,
  sent,       \* history: reports a bot has sent today
  touched     \* history: bots saved or started today, or still owed yesterday's report

settingsVars == <<config, flag, thread, starting, report, due, time, saves,
                  failures, sent, touched>>

Minute == 0 .. Minutes - 1
Now == time % Minutes

Config == [token : BOOLEAN, enabled : BOOLEAN, daily : BOOLEAN, at : Minute]
NoConfig == [token |-> FALSE, enabled |-> FALSE, daily |-> FALSE, at |-> -1]
Working == [token |-> TRUE, enabled |-> TRUE, daily |-> TRUE, at |-> 0]

Pcs == {"check", "stopping", "updates"}
NoThread == [p \in Pcs |-> 0]
OneThread == [NoThread EXCEPT !["check"] = 1]
Asleep == [pc |-> "asleep", todo |-> {}]

Present == {b \in BotIds : config[b] # NoConfig}
Runs(c) == c.token /\ c.enabled
Threads(b) == thread[b]["check"] + thread[b]["stopping"] + thread[b]["updates"]

\* get_config: the row of that id; without an id, the first row there is.
Read(b) == IF b # Blank THEN {config[b]}
           ELSE IF Present = {} THEN {NoConfig}
           ELSE {config[x] : x \in Present}

SettingsTypeOK ==
  /\ config \in [BotIds -> Config \cup {NoConfig}]
  /\ flag \in [BotIds -> BOOLEAN]
  /\ thread \in [BotIds -> [Pcs -> Nat]]
  /\ starting \subseteq BotIds
  /\ report.pc \in {"asleep", "send", "mark"} /\ report.todo \subseteq BotIds
  /\ report.todo = {} <=> report = Asleep
  /\ due \in BOOLEAN
  /\ time \in 0 .. MaxTime /\ saves \in 0 .. MaxSaves /\ failures \in 0 .. MaxFailures
  /\ sent \in [BotIds -> Nat] /\ touched \subseteq BotIds

SettingsInit ==
  /\ config \in [BotIds -> {NoConfig, Working}]
  /\ config[Blank] = NoConfig /\ Present # {}
  /\ flag = [b \in BotIds |-> b \in Present]
  /\ thread = [b \in BotIds |-> IF b \in Present THEN OneThread ELSE NoThread]
  /\ starting = {} /\ report = Asleep /\ due = TRUE
  /\ time = 0 /\ saves = 0 /\ failures = 0
  /\ sent = [b \in BotIds |-> 0] /\ touched = {}

Failure == failures < MaxFailures /\ failures' = failures + 1

-----------------------------------------------------------------------------
(* Polling. *)

PollUnchanged == UNCHANGED <<config, starting, report, due, time, saves,
                             failures, sent, touched>>

Moves(b, from, to) ==
  /\ thread[b][from] > 0
  /\ thread' = [thread EXCEPT ![b][from] = @ - 1, ![b][to] = @ + 1]
  /\ UNCHANGED flag /\ PollUnchanged

\* Mutant: the flag is set and never looked at.
AlwaysFree(b) == b \in BotIds

\* No thread polls for this bot, as far as start_polling can see.
Free(b) == ~flag[b]

StartPolling(b) ==
  /\ b \in starting
  /\ starting' = starting \ {b}
  /\ IF Free(b) /\ \E c \in Read(b) : Runs(c)
     THEN /\ flag' = [flag EXCEPT ![b] = TRUE]
          /\ thread' = [thread EXCEPT ![b]["check"] = @ + 1]
     ELSE UNCHANGED <<flag, thread>>
  /\ UNCHANGED <<config, report, due, time, saves, failures, sent, touched>>

\* Mutant: the loop reads the configuration once and goes on with it.
GoesOn(b) == flag[b] /\ Moves(b, "check", "updates")

\* The loop reads the configuration before every poll.
Poll(b) ==
  /\ flag[b] /\ \E c \in Read(b) : Runs(c)
  /\ Moves(b, "check", "updates")

\* It has read that the bot is disabled, or gone.
StopRead(b) ==
  /\ flag[b] /\ \E c \in Read(b) : ~Runs(c)
  /\ Moves(b, "check", "stopping")

ClearFlag(b) ==
  /\ thread[b]["stopping"] > 0
  /\ thread' = [thread EXCEPT ![b]["stopping"] = @ - 1]
  /\ flag' = [flag EXCEPT ![b] = FALSE]
  /\ PollUnchanged

\* getUpdates answers, or fails, and its updates are handled.
Updates(b) == Moves(b, "updates", "check")

-----------------------------------------------------------------------------
(* The daily reports: once a minute, for the bots whose minute it is. *)

\* Mutant: a report that is late is due.
DueOrLate(c) == c.daily /\ Runs(c) /\ c.at <= Now

\* _already_sent looks for a column that no configuration has: never true.
Due(c) == c.daily /\ Runs(c) /\ c.at = Now

WakeUp ==
  /\ report = Asleep /\ due
  /\ report' = LET todo == {b \in Present : Due(config[b])}
               IN  IF todo = {} THEN Asleep ELSE [pc |-> "send", todo |-> todo]
  /\ due' = FALSE
  /\ UNCHANGED <<config, flag, thread, starting, time, saves, failures, sent,
                 touched>>

\* Mutant: the run goes on after its last report.
NeverEnds(b) == report' = [pc |-> "send", todo |-> report.todo \ {b}]

\* The report of b is dealt with.
ReportDone(b) ==
  report' = IF report.todo = {b} THEN Asleep
            ELSE [pc |-> "send", todo |-> report.todo \ {b}]

\* One report is sent and marked before the next is looked at.
SendReport(b) ==
  /\ report.pc = "send" /\ b \in report.todo
  /\ sent' = [sent EXCEPT ![b] = @ + 1]
  /\ report' = [pc |-> "mark", todo |-> report.todo, bot |-> b]
  /\ UNCHANGED <<config, flag, thread, starting, due, time, saves, failures, touched>>

\* Telegram refuses, or has sent it and the answer is lost.
ReportFails(b) ==
  /\ report.pc = "send" /\ b \in report.todo
  /\ \/ UNCHANGED <<sent, failures>>
     \/ Failure /\ sent' = [sent EXCEPT ![b] = @ + 1]
  /\ ReportDone(b)
  /\ UNCHANGED <<config, flag, thread, starting, due, time, saves, touched>>

\* save_config with an id alone: every other column gets its default.
Wiped == [token |-> FALSE, enabled |-> TRUE, daily |-> FALSE, at |-> Minutes - 1]

MarkSent ==
  /\ report.pc = "mark"
  /\ LET b == report.bot
     IN  /\ config' = IF Read(b) = {NoConfig} THEN config
                      ELSE [config EXCEPT ![b] = Wiped]
         /\ ReportDone(b)
  /\ UNCHANGED <<flag, thread, starting, due, time, saves, failures, sent, touched>>

-----------------------------------------------------------------------------
(* The panels.  The BFF saves over gRPC, which starts no bot; only the PUT of
   rest_api, which no panel reaches, does. *)

\* The row becomes what the form holds, whatever it was.
Stored(b, c) ==
  /\ saves < MaxSaves /\ saves' = saves + 1
  /\ config' = [config EXCEPT ![b] = c]
  /\ touched' = touched \cup {b}
  /\ UNCHANGED <<flag, thread, report, due, time, failures, sent>>

\* React: the form requires a token; a new bot has no id.
SaveForm(b, c) ==
  /\ b \in Present \cup {Blank} /\ c.token
  /\ Stored(b, c) /\ UNCHANGED starting

\* The older panel leaves the token out when a bot is edited and none was
\* typed; the id of a new bot is that of its router.
SaveOldForm(b, c) ==
  /\ b # Blank /\ (c.token \/ b \in Present)
  /\ Stored(b, c) /\ UNCHANGED starting

PutConfig(b, c) ==
  /\ b # Blank /\ Stored(b, c)
  /\ starting' = IF c.enabled THEN starting \cup {b} ELSE starting

DeleteConfig(b) ==
  /\ b \in Present
  /\ config' = [config EXCEPT ![b] = NoConfig]
  /\ UNCHANGED <<flag, thread, starting, report, due, time, saves, failures, sent,
                 touched>>

-----------------------------------------------------------------------------
(* Time and restarts. *)

\* The scheduler runs within the minute it wakes up in, and sleeps to the end
\* of it; minutes that pass while it sends are not caught up.
Tick ==
  /\ time < MaxTime /\ ~due
  /\ time' = time + 1
  /\ due' = (report = Asleep)
  /\ IF time' % Minutes = 0
     THEN sent' = [b \in BotIds |-> 0] /\ touched' = report.todo
     ELSE UNCHANGED <<sent, touched>>
  /\ UNCHANGED <<config, flag, thread, starting, report, saves, failures>>

\* bootstrap makes a configuration when there is none, without daily reports;
\* start_all starts a thread for every bot that is enabled and has a token.
Restart ==
  /\ Failure
  /\ \E c \in Config, d \in BotIds \ {Blank}, first \in BotIds :
       LET table == IF Present = {} THEN [config EXCEPT ![d] = c] ELSE config
           on == {b \in BotIds : /\ table[b].enabled
                                 /\ Runs(table[IF b = Blank THEN first ELSE b])}
       IN  /\ ~c.daily /\ table[first] # NoConfig /\ config' = table
           /\ flag' = [b \in BotIds |-> b \in on]
           /\ thread' = [b \in BotIds |-> IF b \in on THEN OneThread ELSE NoThread]
  /\ starting' = {} /\ report' = Asleep /\ due' = TRUE /\ touched' = BotIds
  /\ UNCHANGED <<time, saves, sent>>

-----------------------------------------------------------------------------

ThreadStep(b) == Poll(b) \/ StopRead(b) \/ ClearFlag(b) \/ Updates(b)

ReportStep == \/ WakeUp \/ MarkSent
              \/ \E b \in BotIds : SendReport(b) \/ ReportFails(b)

OperatorStep == \E b \in BotIds :
  \/ DeleteConfig(b)
  \/ \E c \in Config : SaveForm(b, c) \/ SaveOldForm(b, c) \/ PutConfig(b, c)

SettingsNext ==
  \/ \E b \in BotIds : ThreadStep(b) \/ StartPolling(b)
  \/ ReportStep \/ OperatorStep \/ Tick \/ Restart

SettingsSpec == SettingsInit /\ [][SettingsNext]_settingsVars

\* The threads run; panels and faults are never forced.
SettingsFairSpec ==
  /\ SettingsSpec
  /\ \A b \in BotIds :
       WF_settingsVars(ThreadStep(b)) /\ WF_settingsVars(StartPolling(b))
  /\ WF_settingsVars(ReportStep)

-----------------------------------------------------------------------------
(* Properties *)

\* A bot is polled by one thread at most, however often it is disabled,
\* enabled and started again while the old thread is still in getUpdates: two
\* threads would confirm each other's updates.
OnePoller == \A b \in BotIds : Threads(b) <= 1

\* "Each configured bot gets at most one report per local calendar date"
\* (tg_daily_report.py): what keeps it is not the mark, which is never read,
\* but that a report is due in one minute of the day, as long as the bot is
\* not saved again, the process is not restarted and no report of the day
\* before is still being sent.
OneReportPerDay == \A b \in BotIds \ touched : sent[b] <= 1

\* A bot that stays disabled, or deleted, is no longer polled.
DisabledStops == \A b \in BotIds \ {Blank} :
  ~Runs(config[b]) ~> (Runs(config[b]) \/ Threads(b) = 0)
=============================================================================
