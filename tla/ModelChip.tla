----------------------------- MODULE ModelChip -----------------------------
(***************************************************************************)
(* Which model a session runs, as its page shows it.  After every tool      *)
(* call a hook process reads the model from the transcript and posts it,    *)
(* unless a cache file says that the broker has it already; the file is     *)
(* written when the broker says ok, and vouches for a limited time.  Hooks  *)
(* of parallel tool calls run side by side, and a client that comes back    *)
(* under a new broker session finds the cache but no model there.           *)
(*                                                                         *)
(* Sources: scripts/cc-context-report-hook.ts, scripts/transcript-model.ts, *)
(* broker/session-model.ts.  One client.                                   *)
(***************************************************************************)
EXTENDS Naturals, FiniteSets

CONSTANTS
    Model,
    ResendTicks,    \* MODEL_RESEND_MS, in ticks
    MaxSwitches,    \* bound: /model
    MaxRebinds,     \* bound: new broker sessions, and broker sessions that end
    MaxHooks,       \* bound: hooks side by side
    MaxLost,        \* bound: requests or answers that are lost
    None

VARIABLES
    model,      \* of the latest assistant entry of the main thread
    cache,      \* the cache file
    age,        \* ticks since it was written
    hooks,      \* hook processes
    attached,   \* there is a live broker session of the client
    shown,      \* the model the broker holds for it
    ran,        \* a hook has run in this tick and lost nothing
    behind,     \* ticks with such a run that shown has been wrong for, since the
                \* last switch or registration
    bounds

mvars == <<model, cache, age, hooks, attached, shown, ran, behind, bounds>>

\* "posted": the request is under way.  "ok", "refused": its answer is.
Hook == [id : 1 .. MaxHooks, model : Model, at : {"posted", "ok", "refused"}]

ChipTypeOK ==
    /\ model \in Model /\ cache \in Model \cup {None} /\ age \in 0 .. ResendTicks
    /\ hooks \subseteq Hook
    /\ attached \in BOOLEAN /\ shown \in Model \cup {None}
    /\ ran \in BOOLEAN /\ behind \in 0 .. ResendTicks + 1
    /\ bounds \in [switches : 0 .. MaxSwitches, rebinds : 0 .. MaxRebinds, lost : 0 .. MaxLost]

ChipInit ==
    /\ model \in Model /\ cache = None /\ age = 0 /\ hooks = {}
    /\ attached = FALSE /\ shown = None
    /\ ran = FALSE /\ behind = 0
    /\ bounds = [switches |-> 0, rebinds |-> 0, lost |-> 0]

Spend(what, max) == bounds[what] < max /\ bounds' = [bounds EXCEPT ![what] = @ + 1]

-----------------------------------------------------------------------------
\* The user switches the model, and it has answered since (external).
switchModel(m) ==
    /\ m # model /\ model' = m
    /\ Spend("switches", MaxSwitches)
    /\ ran' = FALSE /\ behind' = 0
    /\ UNCHANGED <<cache, age, hooks, attached, shown>>

\* The client registers; a broker session of its own starts without a model.
register ==
    /\ ~attached /\ attached' = TRUE
    /\ \E known \in {shown, None} : shown' = known
    /\ ran' = FALSE /\ behind' = 0
    /\ UNCHANGED <<model, cache, age, hooks, bounds>>

leave ==
    /\ attached /\ attached' = FALSE
    /\ Spend("rebinds", MaxRebinds)
    /\ UNCHANGED <<model, cache, age, hooks, shown, ran, behind>>

\* (Mutation: what was reported once is never sent again.)
VouchedForGood == cache = model

\* The cache file says that the broker has the model.
Vouched == cache = model /\ age < ResendTicks

\* reportModel up to its request.
reportModel(i) ==
    /\ \A k \in hooks : k.id # i
    /\ IF Vouched
       THEN ran' = TRUE /\ UNCHANGED hooks
       ELSE hooks' = hooks \cup {[id |-> i, model |-> model, at |-> "posted"]} /\ UNCHANGED ran
    /\ UNCHANGED <<model, cache, age, attached, shown, behind, bounds>>

handleReportModel(k) ==
    /\ k.at = "posted"
    /\ hooks' = (hooks \ {k}) \cup {[k EXCEPT !.at = IF attached THEN "ok" ELSE "refused"]}
    /\ shown' = IF attached THEN k.model ELSE shown
    /\ UNCHANGED <<model, cache, age, attached, ran, behind, bounds>>

\* reportModel after its answer.
answered(k) ==
    /\ k.at # "posted"
    /\ hooks' = hooks \ {k}
    /\ cache' = IF k.at = "ok" THEN k.model ELSE cache
    /\ age' = IF k.at = "ok" THEN 0 ELSE age
    /\ ran' = TRUE
    /\ UNCHANGED <<model, attached, shown, behind, bounds>>

\* The request times out: the hook ends without an answer.
timeout(k) ==
    /\ Spend("lost", MaxLost)
    /\ hooks' = hooks \ {k}
    /\ UNCHANGED <<model, cache, age, attached, shown, ran, behind>>

\* A tick is long against the timeout of a request.
Tick ==
    /\ hooks = {}
    /\ age' = IF age < ResendTicks THEN age + 1 ELSE age
    /\ ran' = FALSE
    /\ behind' = IF ~attached \/ shown = model THEN 0
                 ELSE IF ran THEN behind + 1 ELSE behind
    /\ behind =< ResendTicks
    /\ UNCHANGED <<model, cache, hooks, attached, shown, bounds>>

ChipNext ==
    \/ \E m \in Model : switchModel(m)
    \/ register \/ leave \/ Tick
    \/ \E i \in 1 .. MaxHooks : reportModel(i)
    \/ \E k \in hooks : handleReportModel(k) \/ answered(k) \/ timeout(k)

ChipSpec == ChipInit /\ [][ChipNext]_mvars

-----------------------------------------------------------------------------
(* Properties *)

\* A session that keeps working does not show a wrong model, or none, for
\* longer than a report is vouched for: not after a switch, a new broker
\* session, reports refused or lost, or reports of parallel tool calls that
\* overtook each other (reportModel, MODEL_RESEND_MS).
ChipCatchesUp == behind =< ResendTicks

\* Why: the first tick after a switch or a registration may count a run of an
\* older model; from then on every report under way carries the model, an ok
\* means that it is shown, and a tick counts only while the cache vouches for
\* it, whose age grows with behind.
ChipInv ==
    /\ ChipTypeOK
    /\ behind =< ResendTicks
    /\ (behind > 0 => \A k \in hooks : /\ k.model = model
                                     /\ (k.at = "ok" => shown = model)
                                     /\ (k.at = "refused" => ~attached))
    /\ behind > 0 /\ attached /\ shown # model =>
         (cache = model => behind =< age) /\ (ran => Vouched)
=============================================================================
