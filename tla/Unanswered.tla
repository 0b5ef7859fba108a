------------------------------ MODULE Unanswered ------------------------------
(***************************************************************************)
(* Which of the user's posts Claude Code still owes an answer, and how the *)
(* Stop hook insists on it: the table unanswered_nodes and the nag kept on *)
(* the session row (broker/threads.ts, broker/sessions.ts), over the       *)
(* registry of module Sessions.                                            *)
(*                                                                         *)
(* A Board stands for one place a post may be made at: a node of a board   *)
(* or of a map, a diagram's chat.  Its owner is the owner of the document. *)
(***************************************************************************)
EXTENDS Sessions

CONSTANTS
  MaxNag,    \* MAX_NAG_STREAK
  MaxAsked   \* how many submissions wait at once

ASSUME MaxNagAssumption == MaxNag \in Nat \ {0}

VARIABLES
  asked,   \* submission calls that wait to see their row delivered
  flags,   \* unanswered_nodes
  nag,     \* unanswered_nag_streak and unanswered_nag_sig of the session row
  news     \* history: rows with a new flag or a reply since their last Stop

uvars == <<asked, flags, nag, news>>
vars == <<svars, uvars>>

\* sid: the owner of the board as handleSubmitAnswer read it before it waits.
Submission == [sid : Session, board : Board, drained : BOOLEAN]

\* The streak is not counted beyond the cap it is compared with.
Nag == [streak : 0 .. MaxNag + 1, sig : SUBSET Board]

UTypeOK ==
  /\ TypeOK
  /\ asked \subseteq Submission
  /\ flags \subseteq Session \X Board
  /\ nag \in [Session -> Nag]
  /\ news \subseteq Session

NoNag == [streak |-> 0, sig |-> {}]

UInit ==
  /\ Init
  /\ asked = {}
  /\ flags = {}
  /\ nag = [s \in Session |-> NoNag]
  /\ news = {}

Flagged(s) == {b \in Board : <<s, b>> \in flags}

-----------------------------------------------------------------------------
(* Submissions *)

\* The upsert: a place that is flagged already keeps its flag.
flag(s, b) ==
  /\ flags' = flags \cup {<<s, b>>}
  /\ news' = IF <<s, b>> \in flags THEN news ELSE news \cup {s}

handleSubmitAnswer(b) ==
  /\ Reachable(owner[b])
  /\ Cardinality(asked) < MaxAsked
  /\ asked' = asked \cup {[sid |-> owner[b], board |-> b, drained |-> FALSE]}
  /\ UNCHANGED <<svars, flags, nag, news>>

\* A poll.  Until it is drained a row belongs to the owner of its board, since
\* the attaches move the two alike (see module Delivery).
drain(s) ==
  LET mine == {a \in asked : ~a.drained /\ owner[a.board] = s}
  IN /\ proc[s].phase = "serving"
     /\ mine # {}
     /\ asked' = (asked \ mine) \cup {[a EXCEPT !.drained = TRUE] : a \in mine}
     /\ UNCHANGED <<svars, flags, nag, news>>

\* The waiting handler finds its row delivered.
submitDelivered(a) ==
  /\ a.drained
  /\ asked' = asked \ {a}
  /\ flag(a.sid, a.board)
  /\ UNCHANGED <<svars, nag>>

submitTimeout(a) ==
  /\ asked' = asked \ {a}
  /\ UNCHANGED <<svars, flags, nag, news>>

\* An external notice is flagged in the transaction that queues it.
handleNotifySession(b) ==
  /\ Reachable(owner[b])
  /\ flag(owner[b], b)
  /\ UNCHANGED <<svars, asked, nag>>

-----------------------------------------------------------------------------
(* Answers *)

\* (Mutation: the nag goes on where it was.)
UnflagOnly(b) ==
  /\ flags' = flags \ {<<owner[b], b>>}
  /\ UNCHANGED nag

\* A post with a message is an answer to the owner's flag at that place.
unflag(b) ==
  /\ flags' = flags \ {<<owner[b], b>>}
  /\ nag' = [nag EXCEPT ![owner[b]] = NoNag]

\* Any server may reply anywhere.  The flag is cleared before the status and the
\* issue links are validated, so by a reply that is then refused as well.  (A post
\* without a message changes nothing here; handlePostToMapNode and
\* handlePostDiagramChat validate first.)
handlePostToNode(s, b) ==
  /\ Driven(s)
  /\ owner[b] # NoSession
  /\ unflag(b)
  /\ news' = news \cup {owner[b]}
  /\ UNCHANGED <<svars, asked>>

handleResetUnansweredPosts(s) ==
  /\ Driven(s)
  /\ flags' = {f \in flags : f[1] # s}
  /\ nag' = [nag EXCEPT ![s] = NoNag]
  /\ news' = news \cup {s}
  /\ UNCHANGED <<svars, asked>>

-----------------------------------------------------------------------------
(* The Stop hook *)

\* (Mutation: two equal sets never compare equal.)
NextStreakUnsorted(s) == 1

NextStreak(s) == IF nag[s].sig = Flagged(s) THEN nag[s].streak + 1 ELSE 1

\* What the hook is told when it asks now.
Blocks(s) == Flagged(s) # {} /\ NextStreak(s) <= MaxNag

\* Claude Code c wants to end its turn: the hook asks about the live row bound
\* to c (the one last seen, if several are).
handleGetUnansweredPosts(s, c) ==
  /\ sess[s].alive /\ sess[s].cc = c
  /\ nag' = [nag EXCEPT ![s] =
               IF Flagged(s) = {} THEN NoNag
               ELSE [streak |-> IF Blocks(s) THEN NextStreak(s) ELSE MaxNag + 1,
                     sig |-> Flagged(s)]]
  /\ news' = news \ {s}
  /\ UNCHANGED <<svars, asked, flags>>

-----------------------------------------------------------------------------
UNext ==
  \/ \E b \in Board : handleSubmitAnswer(b)
  \/ \E s \in Session : drain(s)
  \/ \E a \in asked : submitDelivered(a)
  \/ \E a \in asked : submitTimeout(a)
  \/ \E b \in Board : handleNotifySession(b)
  \/ \E s \in Session, b \in Board : handlePostToNode(s, b)
  \/ \E s \in Session : handleResetUnansweredPosts(s)
  \/ \E s \in Session, c \in CC : handleGetUnansweredPosts(s, c)
  \/ Next /\ UNCHANGED uvars

USpec == UInit /\ [][UNext]_vars

\* A Claude Code that is kept from ending its turn tries to end it again.
FairUSpec ==
  USpec /\ \A s \in Session : WF_vars(\E c \in CC : handleGetUnansweredPosts(s, c))

-----------------------------------------------------------------------------
(* Properties *)

\* The cap of the nag is never spent on what the client has not been told yet:
\* the first Stop after a place was newly flagged or after a reply insists, in
\* whatever order flags were raised, answered and raised again ("so the give-up
\* cap can't get stuck on a stale set and silently swallow a brand-new
\* unanswered node", sessions.ts).
NewsBlocks == \A s \in news : Flagged(s) # {} => Blocks(s)

\* A client that can do nothing about its flags is let go at last ("so a stuck CC
\* eventually yields and the user can step in", sessions.ts): unless there is
\* news again and again, some Stop is not blocked.
StuckClientYields ==
  \A s \in Session :
    <>[](s \notin news) => []<>(~Blocks(s) \/ ~sess[s].alive)
=============================================================================
