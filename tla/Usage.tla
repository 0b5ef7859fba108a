------------------------------- MODULE Usage -------------------------------
(***************************************************************************)
(* The usage of a subscription's 5-hour window, as the page of a session    *)
(* shows it.  A session knows the number its last response came with and    *)
(* reports it, with the window's end, after every tool call; sessions of    *)
(* one account share a subscription, so the broker shows the number that    *)
(* was reported last by any of them, and zero once that window is over.     *)
(* The 7-day window is evaluated the same way; an extra window of the       *)
(* user's status line is dropped when it is over.                          *)
(*                                                                         *)
(* Sources: broker/context-usage.ts, broker/extra-usage.ts,                *)
(* broker/sessions.ts, scripts/cc-context-report-hook.ts.                  *)
(***************************************************************************)
EXTENDS Naturals, FiniteSets, Sequences, Basics

CONSTANTS
    Session, Account,
    Length,        \* ticks a window lasts
    MaxTime,       \* bound: ticks
    MaxUses,       \* bound: responses
    MaxReports,    \* bound: reports under way at once
    None           \* no number

Used == 0 .. MaxUses

VARIABLES
    extra,     \* it is an extra window
    account,   \* the account each session runs under
    now,
    meter,     \* the subscriptions: what is used, and when the window ends
    uses,
    alive,     \* the sessions the broker holds for alive
    file,      \* per session: what the status line wrote; may lack the window
    reports,   \* reports under way
    limits,    \* the broker's rows, the one reported last at the end
    had        \* per account: what was used, at any time of the window that runs

uvars == <<extra, account, now, meter, uses, alive, file, reports, limits, had>>

Window == [pct : Used \cup {None}, ends : 0 .. MaxTime + Length]
Nothing == [pct |-> None, ends |-> 0]
Report == [session : Session, window : Window]

UsageTypeOK ==
    /\ extra \in BOOLEAN /\ account \in [Session -> Account]
    /\ now \in 0 .. MaxTime /\ uses \in Used
    /\ meter \in [Account -> [used : Used, ends : 0 .. MaxTime + Length]]
    /\ alive \subseteq Session
    /\ file \in [Session -> Window]
    /\ reports \subseteq Report
    /\ limits \in Seq(Report)
    /\ had \in [Account -> SUBSET Used]

UsageInit ==
    /\ extra \in BOOLEAN /\ account \in [Session -> Account]
    /\ now = 0 /\ uses = 0
    /\ meter = [a \in Account |-> [used |-> 0, ends |-> 0]]
    /\ alive = Session
    /\ file = [s \in Session |-> Nothing]
    /\ reports = {} /\ limits = <<>>
    /\ had = [a \in Account |-> {0}]

-----------------------------------------------------------------------------
(* Claude, external *)

\* A response: a window opens with the first use after the last one ended.
respond(s) ==
    LET a == account[s] IN
    /\ uses < MaxUses /\ uses' = uses + 1
    /\ meter' = [meter EXCEPT ![a] = IF now >= @.ends
                                     THEN [used |-> 1, ends |-> now + Length]
                                     ELSE [@ EXCEPT !.used = meter[a].used + 1]]
    /\ file' = [file EXCEPT ![s] = [pct |-> meter'[a].used, ends |-> meter'[a].ends]]
    /\ had' = [had EXCEPT ![a] = (IF now >= meter[a].ends THEN {0} ELSE @)
                                   \cup {meter'[a].used}]
    /\ UNCHANGED <<extra, account, now, alive, reports, limits>>

\* A session that starts knows nothing of the window until its first response.
start(s) ==
    /\ file' = [file EXCEPT ![s] = Nothing]
    /\ alive' = alive \cup {s}
    /\ UNCHANGED <<extra, account, now, meter, uses, reports, limits, had>>

Tick ==
    /\ now < MaxTime /\ now' = now + 1
    /\ had' = [a \in Account |-> IF now' = meter[a].ends THEN {0} ELSE had[a]]
    /\ UNCHANGED <<extra, account, meter, uses, alive, file, reports, limits>>

-----------------------------------------------------------------------------
(* The hook and the broker *)

\* The other windows travel with it, so a report without this one is sent too.
runContextReport(s) ==
    /\ Cardinality(reports) < MaxReports
    /\ reports' = reports \cup {[session |-> s, window |-> file[s]]}
    /\ UNCHANGED <<extra, account, now, meter, uses, alive, file, limits, had>>

RowOf(s) == {i \in DOMAIN limits : limits[i].session = s}
Without(s) == IF RowOf(s) = {} THEN limits ELSE RemoveAt(limits, Max(RowOf(s)))

\* The row of the session is replaced; it is now the last one reported.
handleReportUsageLimits(r) ==
    /\ reports' = reports \ {r}
    /\ limits' = IF r.session \in alive THEN Append(Without(r.session), r) ELSE limits
    /\ UNCHANGED <<extra, account, now, meter, uses, alive, file, had>>

\* The request times out before it reached the broker.
lose(r) ==
    /\ reports' = reports \ {r}
    /\ UNCHANGED <<extra, account, now, meter, uses, alive, file, limits, had>>

\* A session is swept or leaves; its row stays.
gone(s) ==
    /\ s \in alive
    /\ alive' = alive \ {s}
    /\ UNCHANGED <<extra, account, now, meter, uses, file, reports, limits, had>>

\* (Mutation: all rows count, whatever their account.)
EntriesOfAll(a) == DOMAIN limits

Entries(a) == {i \in DOMAIN limits : account[limits[i].session] = a}

liveExtraWindow(w) == IF now >= w.ends THEN None ELSE w.pct

\* The last report that has a number.
combineLimits(entries) ==
    LET with == {i \in entries : limits[i].window.pct # None} IN
    IF with = {} THEN None
    ELSE LET w == limits[Max(with)].window IN
         IF extra THEN liveExtraWindow(w) ELSE IF now >= w.ends THEN 0 ELSE w.pct

\* What /api/sessions says of a session.
usage_limits(s) ==
    IF RowOf(s) # {} THEN combineLimits(Entries(account[s])) ELSE None

UsageNext ==
    \/ \E s \in Session : respond(s) \/ start(s) \/ runContextReport(s) \/ gone(s)
    \/ Tick
    \/ \E r \in reports : handleReportUsageLimits(r) \/ lose(r)

UsageSpec == UsageInit /\ [][UsageNext]_uvars

-----------------------------------------------------------------------------
(* Properties *)

\* A page never shows the number of another subscription, or of a window that
\* is over: what it shows of its account was in use at some time of the window
\* that runs now, however late the reports come, in whatever order, and
\* whichever of the account's sessions are gone (combineLimits,
\* getUsageLimitsForAccount).
OwnWindow ==
    \A s \in Session : usage_limits(s) # None => usage_limits(s) \in had[account[s]]

-----------------------------------------------------------------------------
(* The inductive invariant *)

\* A session's number, while it counts, was in use in the account's window that
\* runs: no number knows of a later one.
Of(a, w) == /\ w.ends =< meter[a].ends
            /\ (w.pct # None /\ now < w.ends => w.pct \in had[a])

MeterIsHad ==
    \A a \in Account : /\ 0 \in had[a] /\ meter[a].used =< uses
                       /\ (now < meter[a].ends => meter[a].used \in had[a])

NumbersAreHad ==
    /\ \A s \in Session : Of(account[s], file[s])
    /\ \A r \in reports : Of(account[r.session], r.window)
    /\ \A i \in DOMAIN limits : Of(account[limits[i].session], limits[i].window)

UsageInv == UsageTypeOK /\ MeterIsHad /\ NumbersAreHad
=============================================================================
