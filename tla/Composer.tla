------------------------------ MODULE Composer ------------------------------
(***************************************************************************)
(* The reply box of a node and the words a user puts into it: the draft    *)
(* that useDraft keeps in localStorage behind a debounced write, the       *)
(* boxes of one page that share it (the card and the preview of a node),   *)
(* the live send with its "a timed message is waiting" confirmation, and   *)
(* the timed messages the broker keeps in scheduled_messages and fires.    *)
(*                                                                         *)
(* A text is the set of the words in it, each word typed once, so that     *)
(* "lost" and "sent twice" can be said of a word.  env names what the      *)
(* world may do to a behaviour:                                            *)
(*   fail    a POST, or its answer, is lost                                *)
(*   refuse  the broker refuses the message (owner gone, timed out): the   *)
(*           answer is {ok: false} under HTTP 200 (broker.ts jsonResponse) *)
(*   ahead   the user types on while a message is being sent               *)
(*   race    the user acts within the debounce, while the confirmation or  *)
(*           a reservation is under way, or leaves during a send           *)
(*   crash   the broker stops and starts again                             *)
(***************************************************************************)
EXTENDS Naturals, Sequences, Basics, FiniteSets

CONSTANTS Box,        \* the composers of one (board, node) on one page
          Timed,      \* those of the cards: they confirm, and can reserve
          Row,        \* ids of scheduled_messages
          MaxWords,   \* bound: words the user types
          MaxCalls,   \* bound: sends and reservations attempted
          Envs,       \* the environments considered
          Closed,     \* a box that is not mounted
          None        \* no row, no modal, no state

Word   == 1 .. MaxWords
Text   == SUBSET Word

Call == [kind : {"send", "book"}, box : Box, text : Text,
         at : {"asked", "out", "accepted", "refused", "failed", "told", "done"}]

VARIABLES
    env,      \* what the world may do in this behaviour
    shown,    \* [Box -> Text or Closed]: value of each mounted useDraft
    pend,     \* debounced writes not yet made, oldest timer first
    stored,   \* localStorage's entry of the key
    calls,    \* the POSTs of the composers, in the order they were begun
    armed,    \* owner_timer_confirm_armed as the page last heard it
    rows,     \* scheduled_messages
    firing,   \* a row marked sent and not yet submitted, or None
    edit,     \* the reservation edit modal, or None
    typed,    \* words typed so far
    got,      \* [Word -> Nat]: times a word was accepted for delivery
    dropped   \* words the user threw away

vars == <<env, shown, pend, stored, calls, armed, rows, firing, edit, typed,
          got, dropped>>

NoRow == [state |-> None, text |-> {}, due |-> FALSE, armed |-> FALSE]

CTypeOK ==
    /\ env \in Envs
    /\ shown \in [Box -> Text \cup {Closed}]
    /\ pend \in Seq([box : Box, text : Text]) /\ Len(pend) <= Cardinality(Box)
    /\ stored \in Text
    /\ calls \in Seq(Call) /\ Len(calls) <= MaxCalls
    /\ armed \in BOOLEAN
    /\ rows \in [Row -> [state : {None, "pending", "sent", "gone"}, text : Text,
                         due : BOOLEAN, armed : BOOLEAN]]
    /\ firing \in Row \cup {None}
    /\ edit \in [row : Row, text : Text] \cup {None}
    /\ typed \in 0 .. MaxWords
    /\ got \in [Word -> Nat]
    /\ dropped \in Text

Init ==
    /\ env \in Envs
    /\ shown = [b \in Box |-> Closed]
    /\ pend = <<>> /\ stored = {}
    /\ calls = <<>> /\ armed = FALSE
    /\ rows = [r \in Row |-> NoRow] /\ firing = None /\ edit = None
    /\ typed = 0 /\ got = [w \in Word |-> 0] /\ dropped = {}

-----------------------------------------------------------------------------
(* State formulae and the pieces the handlers share.                       *)

Open   == {b \in Box : shown[b] # Closed}
Asked  == {i \in DOMAIN calls : calls[i].at = "asked"}
Under(b, kind) == {i \in DOMAIN calls : /\ calls[i].box = b /\ calls[i].kind = kind
                                        /\ calls[i].at \in {"out", "accepted", "refused", "failed"}}
Booking == \E b \in Box : Under(b, "book") # {}
Sending == \E b \in Box : Under(b, "send") # {}

\* Nothing under way that the box's next change could overtake.
Unhurried(b) == /\ \A i \in DOMAIN pend : pend[i].box = b
                /\ Asked = {} /\ ~ Booking

\* The write that waits for the box's own timer, of which there is one at most.
Pending(b) == {i \in DOMAIN pend : pend[i].box = b}
Cancelled(b) == IF Pending(b) = {} THEN pend
                ELSE RemoveAt(pend, CHOOSE i \in Pending(b) : TRUE)

\* useDraft.update: the value is shown at once in every mounted box of the key
\* and its write to localStorage is put off behind the box's own timer.
update(b, t) ==
    /\ shown' = [x \in Box |-> IF shown[x] = Closed THEN Closed ELSE t]
    /\ pend' = Append(Cancelled(b), [box |-> b, text |-> t])

\* pendingArmedCount(session) > 0, in the board delta.
pendingArmed(rs) == \E r \in Row : rs[r].state = "pending" /\ rs[r].armed

deliver(t) == got' = [w \in Word |-> IF w \in t THEN got[w] + 1 ELSE got[w]]

-----------------------------------------------------------------------------
(* Typing and the life of a draft.                                         *)

type(b) ==
    /\ shown[b] # Closed /\ typed < MaxWords
    /\ "race" \in env \/ Unhurried(b)
    /\ {"race", "ahead"} \cap env # {} \/ ~ Sending
    /\ update(b, shown[b] \cup {typed + 1})
    /\ typed' = typed + 1
    /\ UNCHANGED <<env, stored, calls, armed, rows, firing, edit, got, dropped>>

\* The debounce of the oldest pending write runs out.
flush ==
    /\ pend # <<>>
    /\ stored' = Head(pend).text /\ pend' = Tail(pend)
    /\ UNCHANGED <<env, shown, calls, armed, rows, firing, edit, typed, got, dropped>>

\* A composer mounts and hydrates from localStorage, not from its siblings.
open(b) ==
    /\ shown[b] = Closed
    /\ "race" \in env \/ (pend = <<>> /\ ~ Sending)
    /\ shown' = [shown EXCEPT ![b] = stored]
    /\ UNCHANGED <<env, pend, stored, calls, armed, rows, firing, edit, typed, got, dropped>>

\* Mutant of close: the cleanup removes the listener and does not flush.
closeUnflushed(b) ==
    /\ shown[b] # Closed
    /\ "race" \in env \/ Asked = {}
    /\ shown' = [shown EXCEPT ![b] = Closed]
    /\ pend' = Cancelled(b)
    /\ UNCHANGED <<env, stored, calls, armed, rows, firing, edit, typed, got, dropped>>

\* A composer unmounts: its own pending write is made at once.
close(b) ==
    /\ shown[b] # Closed
    /\ "race" \in env \/ Asked = {}
    /\ shown' = [shown EXCEPT ![b] = Closed]
    /\ stored' = IF Pending(b) = {} THEN stored ELSE pend[CHOOSE i \in Pending(b) : TRUE].text
    /\ pend' = Cancelled(b)
    /\ UNCHANGED <<env, calls, armed, rows, firing, edit, typed, got, dropped>>

\* The tab is closed or reloaded: beforeunload flushes every mounted box, in
\* the order they mounted; promises under way settle for nobody.
leave ==
    /\ Open # {} /\ edit = None
    /\ "race" \in env \/ (/\ ~ (Sending \/ Booking)
                          /\ \A i \in DOMAIN pend : pend[i].box \in Open)
    /\ LET kept == {i \in DOMAIN pend : pend[i].box \in Open} IN
       stored' = IF kept = {} THEN stored
                 ELSE pend[Max(kept)].text
    /\ shown' = [b \in Box |-> Closed] /\ pend' = <<>>
    /\ calls' = [i \in DOMAIN calls |->
                   [calls[i] EXCEPT !.at = IF @ \in {"told", "done"} THEN @ ELSE "done"]]
    /\ got' \in {got, [w \in Word |-> got[w] + Cardinality(
                   {i \in DOMAIN calls : /\ calls[i].kind = "send" /\ calls[i].at = "out"
                                         /\ w \in calls[i].text})]}
    /\ UNCHANGED <<env, armed, rows, firing, edit, typed, dropped>>

-----------------------------------------------------------------------------
(* The live send.                                                          *)

call(b, kind, at) == [kind |-> kind, box |-> b, text |-> shown[b], at |-> at]

\* handleSubmit: with a reservation armed and no confirmation open yet, the
\* confirmation opens, which disarms the session's rows; otherwise the draft
\* is cleared and the message posted; the preview never asks.  Cmd+Enter looks at nothing but the text.
send(b) ==
    /\ shown[b] \notin {Closed, {}} /\ Len(calls) < MaxCalls
    /\ "race" \in env \/ Unhurried(b)
    /\ IF b \in Timed /\ armed /\ Asked = {}
       THEN /\ calls' = Append(calls, call(b, "send", "asked"))
            /\ rows' = [r \in Row |-> [rows[r] EXCEPT !.armed =
                                         @ /\ rows[r].state # "pending"]]
            /\ UNCHANGED <<shown, pend>>
       ELSE /\ calls' = Append(calls, call(b, "send", "out"))
            /\ update(b, {})
            /\ UNCHANGED rows
    /\ UNCHANGED <<env, stored, armed, firing, edit, typed, got, dropped>>

choose(proceed) ==
    \E i \in Asked :
        /\ calls' = [calls EXCEPT ![i].at = IF proceed THEN "out" ELSE "done"]
        /\ IF proceed THEN update(calls[i].box, {}) ELSE UNCHANGED <<shown, pend>>
        /\ UNCHANGED <<env, stored, armed, rows, firing, edit, typed, got, dropped>>

\* The broker takes the message, or refuses it, and answers 200 either way.
submitAnswer(i) ==
    /\ calls[i].kind = "send" /\ calls[i].at = "out"
    /\ \/ /\ calls' = [calls EXCEPT ![i].at = "accepted"]
          /\ deliver(calls[i].text)
       \/ /\ "refuse" \in env
          /\ calls' = [calls EXCEPT ![i].at = "refused"]
          /\ UNCHANGED got
    /\ UNCHANGED <<env, shown, pend, stored, armed, rows, firing, edit, typed, dropped>>

\* The POST, or its answer, is lost: fetch throws.
lose(i) ==
    /\ "fail" \in env /\ calls[i].at \in {"out", "accepted", "refused"}
    /\ calls' = [calls EXCEPT ![i].at = "failed"]
    /\ UNCHANGED <<env, shown, pend, stored, armed, rows, firing, edit, typed, got, dropped>>

\* What the composer does with the end of its POST: only an exception puts the
\* text back, and res.ok holds for a refusal too; a message sent is followed
\* by a delta, which brings the armed flag.
sendAnswered(i) ==
    /\ calls[i].kind = "send" /\ calls[i].at \in {"accepted", "refused", "failed"}
    /\ IF calls[i].at = "failed"
       THEN /\ update(calls[i].box, calls[i].text)
            /\ calls' = [calls EXCEPT ![i].at = "told"]
            /\ UNCHANGED armed
       ELSE /\ calls' = [calls EXCEPT ![i].at = "done"]
            /\ armed' = pendingArmed(rows)
            /\ UNCHANGED <<shown, pend>>
    /\ UNCHANGED <<env, stored, rows, firing, edit, typed, got, dropped>>

-----------------------------------------------------------------------------
(* Timed messages.                                                         *)

\* TimerSendButton.schedule: the draft is kept until the answer.
schedule(b) ==
    /\ b \in Timed /\ shown[b] \notin {Closed, {}} /\ Len(calls) < MaxCalls
    /\ Under(b, "book") = {}
    /\ "race" \in env \/ Unhurried(b)
    /\ calls' = Append(calls, call(b, "book", "out"))
    /\ UNCHANGED <<env, shown, pend, stored, armed, rows, firing, edit, typed, got, dropped>>

handleScheduleMessage(i, r) ==
    /\ calls[i].kind = "book" /\ calls[i].at = "out" /\ rows[r].state = None
    /\ rows' = [rows EXCEPT ![r] = [state |-> "pending", text |-> calls[i].text,
                                    due |-> FALSE, armed |-> TRUE]]
    /\ calls' = [calls EXCEPT ![i].at = "accepted"]
    /\ UNCHANGED <<env, shown, pend, stored, armed, firing, edit, typed, got, dropped>>

\* onScheduled clears the draft; a failure leaves it and says so.
scheduleAnswered(i) ==
    /\ calls[i].kind = "book" /\ calls[i].at \in {"accepted", "failed"}
    /\ IF calls[i].at = "accepted"
       THEN update(calls[i].box, {}) /\ calls' = [calls EXCEPT ![i].at = "done"]
       ELSE UNCHANGED <<shown, pend>> /\ calls' = [calls EXCEPT ![i].at = "told"]
    /\ UNCHANGED <<env, stored, armed, rows, firing, edit, typed, got, dropped>>

\* The page hears scheduled-messages-update and fetches the board's delta.
heard ==
    /\ armed # pendingArmed(rows)
    /\ armed' = pendingArmed(rows)
    /\ UNCHANGED <<env, shown, pend, stored, calls, rows, firing, edit, typed, got, dropped>>

handleCancelScheduledMessage(r) ==
    /\ rows[r].state = "pending" /\ edit = None
    /\ rows' = [rows EXCEPT ![r].state = "gone"]
    /\ dropped' = dropped \cup rows[r].text
    /\ UNCHANGED <<env, shown, pend, stored, calls, armed, firing, edit, typed, got>>

\* The edit modal opens on the text the page shows, and its own typing.
openScheduledEdit(r) ==
    /\ edit = None /\ rows[r].state = "pending"
    /\ edit' = [row |-> r, text |-> rows[r].text]
    /\ UNCHANGED <<env, shown, pend, stored, calls, armed, rows, firing, typed, got, dropped>>

typeInEdit ==
    /\ edit # None /\ typed < MaxWords
    /\ edit' = [edit EXCEPT !.text = @ \cup {typed + 1}]
    /\ typed' = typed + 1
    /\ UNCHANGED <<env, shown, pend, stored, calls, armed, rows, firing, got, dropped>>

closeEdit ==
    /\ edit # None /\ edit' = None
    /\ dropped' = dropped \cup edit.text
    /\ UNCHANGED <<env, shown, pend, stored, calls, armed, rows, firing, typed, got>>

\* save and handleUpdateScheduledMessage: a row already sent is not changed,
\* the answer says ok: false, and the modal stays; so it does on a lost answer.
handleUpdateScheduledMessage ==
    /\ edit # None /\ edit.text # {} /\ rows[edit.row].state = "pending"
    /\ rows' = [rows EXCEPT ![edit.row].text = edit.text, ![edit.row].due = FALSE]
    /\ edit' \in IF "fail" \in env THEN {edit, None} ELSE {None}
    /\ UNCHANGED <<env, shown, pend, stored, calls, armed, firing, typed, got, dropped>>

timePasses(r) ==
    /\ rows[r].state = "pending" /\ ~ rows[r].due
    /\ rows' = [rows EXCEPT ![r].due = TRUE]
    /\ UNCHANGED <<env, shown, pend, stored, calls, armed, firing, edit, typed, got, dropped>>

\* Mutant of fireDueScheduledMessages: submitted before it is stamped, and the
\* stamp of a row whose submission was under way is forgotten.
fireUnstamped(r) ==
    /\ firing = None /\ rows[r].state = "pending" /\ rows[r].due
    /\ firing' = r
    /\ UNCHANGED <<env, shown, pend, stored, calls, armed, rows, edit, typed, got, dropped>>

\* fireDueScheduledMessages, for one due row: stamp it sent, then submit it.
\* No other handler runs between the two statements; a crash may.
fireDueScheduledMessages(r) ==
    /\ firing = None /\ rows[r].state = "pending" /\ rows[r].due
    /\ rows' = [rows EXCEPT ![r].state = "sent"]
    /\ firing' = r
    /\ UNCHANGED <<env, shown, pend, stored, calls, armed, edit, typed, got, dropped>>

submitFired ==
    /\ firing # None
    /\ firing' = None
    /\ deliver(rows[firing].text) \/ ("refuse" \in env /\ UNCHANGED got)
    /\ UNCHANGED <<env, shown, pend, stored, calls, armed, rows, edit, typed, dropped>>

\* The broker goes down and comes back: rows survive, POSTs under way fail.
crash ==
    /\ "crash" \in env
    /\ firing # None \/ \E i \in DOMAIN calls : calls[i].at = "out"
    /\ firing' = None
    /\ calls' = [i \in DOMAIN calls |->
                   [calls[i] EXCEPT !.at = IF @ = "out" THEN "failed" ELSE @]]
    /\ UNCHANGED <<env, shown, pend, stored, armed, rows, edit, typed, got, dropped>>

broker == firing = None

Next ==
    \/ \E b \in Box : \/ type(b) \/ open(b) \/ close(b)
                      \/ (broker /\ (send(b) \/ schedule(b)))
    \/ flush
    \/ leave
    \/ \E p \in BOOLEAN : choose(p)
    \/ \E i \in DOMAIN calls :
          \/ lose(i) \/ sendAnswered(i) \/ scheduleAnswered(i)
          \/ (broker /\ (\/ submitAnswer(i)
                         \/ \E r \in Row : handleScheduleMessage(i, r)))
    \/ (broker /\ heard)
    \/ \E r \in Row : \/ openScheduledEdit(r) \/ timePasses(r)
                      \/ fireDueScheduledMessages(r)
                      \/ (broker /\ handleCancelScheduledMessage(r))
    \/ typeInEdit
    \/ closeEdit
    \/ (broker /\ handleUpdateScheduledMessage)
    \/ submitFired
    \/ crash

Spec == Init /\ [][Next]_vars

-----------------------------------------------------------------------------
(* Properties.                                                             *)

Shown    == UNION {shown[b] : b \in Open}
\* What a box opened once the debounce has run out would show.
Saved    == IF pend = <<>> THEN stored ELSE Last(pend).text
Booked   == UNION {rows[r].text : r \in {x \in Row : rows[x].state # "gone"}}
UnderWay == UNION {calls[i].text : i \in {x \in DOMAIN calls :
                                            calls[x].at \in {"asked", "out", "failed"}}}

\* No word the user typed is lost: it is on the page or will be when a box is
\* opened, on its way, in a reservation or its editor, with the session, or it
\* was thrown away on purpose.
WordsKept ==
    \A w \in 1 .. typed :
        \/ got[w] > 0
        \/ w \in Shown \cup Saved \cup Booked \cup UnderWay \cup dropped
        \/ edit # None /\ w \in edit.text

\* A word reaches the session twice only if the user was told that sending or
\* scheduling it had failed.
SentOnce ==
    \A w \in Word : got[w] > 1 =>
        \E i \in DOMAIN calls : w \in calls[i].text /\ calls[i].at \in {"failed", "told"}
-----------------------------------------------------------------------------
(* The inductive invariants, for users who wait for what they have begun: the *)
(* one draft and what the calls have to do with it, why no word is lost, and   *)
(* why none is sent twice.                                                     *)

\* A call that rests on the draft, and one that has taken the draft along.
Rests(c) == c.at = "asked" \/ (c.kind = "book" /\ c.at \in {"out", "accepted", "refused", "failed"})
Goes(c)  == c.kind = "send" /\ c.at \in {"out", "accepted", "refused", "failed"}
Reserves(c) == c.kind = "book" /\ c.at = "accepted"

ComposerTypes ==
    /\ env \in Envs
    /\ shown \in [Box -> Text \cup {Closed}]
    /\ pend \in Seq([box : Box, text : Text]) /\ stored \in Text
    /\ calls \in Seq(Call)
    /\ \A i \in DOMAIN calls : calls[i].at = "asked" => calls[i].kind = "send"
    /\ rows \in [Row -> [state : {None, "pending", "sent", "gone"}, text : Text,
                         due : BOOLEAN, armed : BOOLEAN]]
    /\ firing \in Row \cup {None}
    /\ edit \in [row : Row, text : Text] \cup {None}
    /\ typed \in 0 .. MaxWords
    /\ got \in [Word -> Nat]
    /\ dropped \in Text

\* There is one draft: what is open shows what would be stored.
OneDraft == Len(pend) =< 1 /\ \A b \in Open : shown[b] = Saved

OnlyOf(b) == \A i \in DOMAIN pend : pend[i].box = b
CallsFollow ==
    \A i \in DOMAIN calls :
        /\ Rests(calls[i]) =>
              /\ calls[i].text = Saved /\ Saved # {} /\ OnlyOf(calls[i].box)
              /\ \A j \in DOMAIN calls : Rests(calls[j]) => j = i
        /\ "ahead" \notin env /\ Goes(calls[i]) =>
              /\ Saved = {} /\ OnlyOf(calls[i].box)
              /\ \A j \in DOMAIN calls : Goes(calls[j]) => j = i
        /\ "ahead" \in env => calls[i].at # "failed"

RowsFollow ==
    /\ edit # None => /\ rows[edit.row].text \subseteq edit.text
                      /\ rows[edit.row].state \in {"pending", "sent"}
    /\ firing # None => rows[firing].state = "sent"
    /\ \A r \in Row : rows[r].state = None => rows[r].text = {}

AreTyped ==
    /\ Saved \subseteq 1 .. typed
    /\ \A i \in DOMAIN calls : calls[i].text \subseteq 1 .. typed
    /\ \A r \in Row : rows[r].text \subseteq 1 .. typed
    /\ edit # None => edit.text \subseteq 1 .. typed
    /\ \A w \in Word : w > typed => got[w] = 0

ComposerInv == ComposerTypes /\ OneDraft /\ CallsFollow /\ RowsFollow /\ AreTyped

\* A word that the composer may forget.
Safe(w) == got[w] > 0 \/ w \in Booked \cup dropped \/ (edit # None /\ w \in edit.text)

KeptInv ==
    /\ ComposerInv
    /\ \A i \in DOMAIN calls : Reserves(calls[i]) => \A w \in calls[i].text : Safe(w)
    /\ \A w \in 1 .. typed : Safe(w) \/ w \in Saved \cup UnderWay

\* Where a word is that may yet be sent.
InDraft(w) == w \in Saved /\ \A i \in DOMAIN calls : Reserves(calls[i]) => w \notin calls[i].text
InCall(w, i) == calls[i].kind = "send" /\ calls[i].at = "out" /\ w \in calls[i].text
InRow(w, r) == \/ firing = r /\ w \in rows[r].text
               \/ /\ rows[r].state = "pending"
                  /\ w \in rows[r].text \/ (edit # None /\ edit.row = r /\ w \in edit.text)

Told(w) == \E i \in DOMAIN calls : w \in calls[i].text /\ calls[i].at \in {"failed", "told"}

\* In one place at most, and in none once it was sent.
InOnePlace(w) ==
    /\ got[w] =< 1
    /\ InDraft(w) => /\ got[w] = 0
                     /\ \A i \in DOMAIN calls : ~ InCall(w, i)
                     /\ \A r \in Row : ~ InRow(w, r)
    /\ \A i \in DOMAIN calls : InCall(w, i) =>
          /\ got[w] = 0
          /\ \A j \in DOMAIN calls : InCall(w, j) => j = i
          /\ \A r \in Row : ~ InRow(w, r)
    /\ \A r \in Row : InRow(w, r) =>
          got[w] = 0 /\ \A q \in Row : InRow(w, q) => q = r

OnceInv == ComposerInv /\ \A w \in Word : ~ Told(w) => InOnePlace(w)
=============================================================================
