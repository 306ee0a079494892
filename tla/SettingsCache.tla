---------------------------- MODULE SettingsCache -----------------------------
(* app_settings, the in-process cache in front of it (lib/settings.ts) and  *)
(* the owner's settings forms (admin/settings/_actions.ts).                 *)
(*                                                                          *)
(* A section's value is the number of the save that wrote it; the Telegram  *)
(* section also has its enabled flag.  Field validation is one choice: a    *)
(* form is refused or saved.                                                *)
EXTENDS Integers, FiniteSets

CONSTANTS
    Section, Telegram,  \* the settings sections, and the Telegram one
    Caller,             \* requests that load or save
    SettingsTTL,        \* TTL_MS
    SlowSettings,       \* ticks a query may take
    MaxClock, MaxSaves

ASSUME SettingsAssumption ==
    /\ Telegram \in Section
    /\ {SettingsTTL, SlowSettings, MaxClock, MaxSaves} \subseteq Nat /\ SettingsTTL > 0

Clock == 0..MaxClock
Value == [save : 0..MaxSaves, on : BOOLEAN]
Settings == [Section -> Value]
Empty == [expires |-> -1, value |-> [s \in Section |-> [save |-> 0, on |-> FALSE]]]
Resting == [pc |-> "idle", clear |-> FALSE, start |-> 0, section |-> Telegram,
            value |-> Empty.value, save |-> [save |-> 0, on |-> FALSE]]

VARIABLES
    clock,
    rows,       \* app_settings, defaults for the missing rows
    memo,       \* cache.entry; expires -1: none
    caller,     \* calls in flight
    saves,      \* saves so far
    truth       \* when each section last had each value (ghost)

settingsVars == <<clock, rows, memo, caller, saves, truth>>

SettingsTypeOK ==
    /\ clock \in Clock
    /\ rows \in Settings
    /\ memo.expires \in -1..(MaxClock + SettingsTTL) /\ memo.value \in Settings
    /\ \A c \in Caller :
         /\ caller[c].pc \in {"idle", "query", "fill", "answered", "upsert", "bust"}
         /\ caller[c].clear \in BOOLEAN /\ caller[c].start \in Clock
         /\ caller[c].section \in Section
         /\ caller[c].value \in Settings /\ caller[c].save \in Value
    /\ saves \in 0..MaxSaves
    /\ truth \in [Section -> [Value -> Clock \cup {-1}]]

SettingsInit ==
    /\ clock = 0 /\ saves = 0
    /\ rows = Empty.value
    /\ memo = Empty
    /\ caller = [c \in Caller |-> Resting]
    /\ truth = [s \in Section |-> [v \in Value |-> IF v = rows[s] THEN 0 ELSE -1]]

SettingsSame == UNCHANGED <<clock, rows, memo, saves, truth>>

-----------------------------------------------------------------------------
(* loadSettings: `now` is read first, the answer is stored when the query   *)
(* has come back.                                                           *)

\* clear: clearTelegramToken, which saves what it loads.
Load(c) ==
    /\ caller[c].pc = "idle"
    /\ \E clear \in BOOLEAN :
         caller' = [caller EXCEPT ![c] =
           IF memo.expires > clock
           THEN [Resting EXCEPT !.pc = "answered", !.clear = clear, !.value = memo.value]
           ELSE [Resting EXCEPT !.pc = "query", !.clear = clear, !.start = clock]]
    /\ SettingsSame

Query(c) ==
    /\ caller[c].pc = "query"
    /\ caller' = [caller EXCEPT ![c].pc = "fill", ![c].value = rows]
    /\ SettingsSame

\* Mutant: the window is counted from the end of the query.
FillLate(c) ==
    /\ caller[c].pc = "fill"
    /\ memo' = [expires |-> clock + SettingsTTL, value |-> caller[c].value]
    /\ caller' = [caller EXCEPT ![c].pc = "answered"]
    /\ UNCHANGED <<clock, rows, saves, truth>>

Fill(c) ==
    /\ caller[c].pc = "fill"
    /\ memo' = [expires |-> caller[c].start + SettingsTTL, value |-> caller[c].value]
    /\ caller' = [caller EXCEPT ![c].pc = "answered"]
    /\ UNCHANGED <<clock, rows, saves, truth>>

\* The caller goes on with what it was given; clearTelegramToken writes the
\* section back with enabled off.
UseAnswer(c) ==
    /\ caller[c].pc = "answered"
    /\ caller' = [caller EXCEPT ![c] =
         IF caller[c].clear
         THEN [Resting EXCEPT !.pc = "upsert",
                              !.save = [caller[c].value[Telegram] EXCEPT !.on = FALSE]]
         ELSE Resting]
    /\ SettingsSame

-----------------------------------------------------------------------------
(* The forms: saveSettings upserts, then empties the cache.                 *)

\* A form that passes validation; enabling is the Telegram section's.
SubmitForm(c) ==
    /\ caller[c].pc = "idle" /\ saves < MaxSaves
    /\ \E s \in Section, on \in BOOLEAN :
         /\ on => s = Telegram
         /\ caller' = [caller EXCEPT ![c] = [Resting EXCEPT !.pc = "upsert", !.section = s,
                                               !.save = [save |-> saves + 1, on |-> on]]]
    /\ saves' = saves + 1
    /\ UNCHANGED <<clock, rows, memo, truth>>

Upsert(c) ==
    /\ caller[c].pc = "upsert"
    /\ rows' = [rows EXCEPT ![caller[c].section] = caller[c].save]
    /\ truth' = [truth EXCEPT ![caller[c].section][caller[c].save] = clock]
    /\ caller' = [caller EXCEPT ![c].pc = "bust"]
    /\ UNCHANGED <<clock, memo, saves>>

Bust(c) ==
    /\ caller[c].pc = "bust"
    /\ memo' = Empty
    /\ caller' = [caller EXCEPT ![c] = Resting]
    /\ UNCHANGED <<clock, rows, saves, truth>>

\* The upsert throws: nothing is saved and the cache stays.
SaveFails(c) ==
    /\ caller[c].pc = "upsert"
    /\ caller' = [caller EXCEPT ![c] = Resting]
    /\ SettingsSame

ClockTick ==
    /\ clock < MaxClock
    /\ \A c \in Caller : caller[c].pc \in {"query", "fill"} => clock - caller[c].start < SlowSettings
    /\ \A c \in Caller : caller[c].pc # "answered"
    /\ clock' = clock + 1
    /\ truth' = [s \in Section |-> [truth[s] EXCEPT ![rows[s]] = clock + 1]]
    /\ UNCHANGED <<rows, memo, caller, saves>>

SettingsNext ==
    \/ \E c \in Caller : \/ Load(c) \/ Query(c) \/ Fill(c) \/ UseAnswer(c)
                         \/ SubmitForm(c) \/ Upsert(c) \/ Bust(c) \/ SaveFails(c)
    \/ ClockTick

SettingsSpec == SettingsInit /\ [][SettingsNext]_settingsVars

-----------------------------------------------------------------------------
\* One cache window, or one slow query.
Stalest == IF SlowSettings >= SettingsTTL THEN SlowSettings ELSE SettingsTTL - 1

\* Every section a caller is given was the row's value less than one cache
\* window ago, or when a slow query began: a fill that lands after a save has
\* emptied the cache included (settings.ts 151-210).
SettingsAreRecent ==
    \A c \in Caller, s \in Section :
      caller[c].pc = "answered" =>
        LET t == truth[s][caller[c].value[s]] IN t # -1 /\ clock - t <= Stalest
=============================================================================
