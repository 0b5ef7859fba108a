-------------------------------- MODULE WebDist --------------------------------
(***************************************************************************)
(* The prebuilt web page and how a tab learns that it is out of date.      *)
(* Brokers that start from one checkout (the user's, and those of tests)   *)
(* share a cache of builds, one directory per state of the sources: a      *)
(* broker takes the directory of its key if it is complete, or builds in a *)
(* temporary directory, renames it, and removes the directories nobody has *)
(* touched for an hour.  A directory in use is touched every ten minutes.  *)
(* A tab remembers the first build id a broker tells it.                   *)
(*                                                                         *)
(* PruneAge ticks are an hour; a key stands for the sources it was         *)
(* computed from.                                                          *)
(*                                                                         *)
(* Sources: broker/web-dist.ts, broker/web-build-id.ts, broker.ts,         *)
(* web/utils/appUpdate.ts.                                                 *)
(***************************************************************************)
EXTENDS Naturals

CONSTANTS
    Broker, User,   \* brokers of this checkout; the one the tab talks to
    Key,            \* states of the sources
    PruneAge,       \* DEFAULT_PRUNE_AGE_MS, in ticks
    MaxTicks,       \* bound
    MaxEdits,       \* bound
    None,
    WebEnvs         \* possible environments, see WebEnvKind

(***************************************************************************)
(* "close":   two brokers start at the same time, and one of them finds a  *)
(*            directory past the prune age.                                *)
(* "asleep":  the machine sleeps past the prune age.                       *)
(* "edited":  the sources change while a broker starts or has not bundled. *)
(* "swapped": the broker is replaced between a tab's load and its first    *)
(*            socket.                                                      *)
(***************************************************************************)
WebEnvKind == {"close", "asleep", "edited", "swapped"}

VARIABLES
    webenv,
    web,       \* the sources as they are
    edits, ticks,
    dirs,      \* the cache, by key
    tmp,       \* the temporary directory of each broker's start
    brokers,
    tab

wvars == <<webenv, web, edits, ticks, dirs, tmp, brokers, tab>>

\* of: the sources the files were built from; age: ticks since the last touch.
Dir == [is : {"absent", "junk", "complete"}, of : Key \cup {None}, age : 0 .. PruneAge]
NoDir == [is |-> "absent", of |-> None, age |-> 0]

\* key: WEB_BUILD_ID; victims: what its prune found old enough; due: the
\* keepalive has not fired in this tick; bundle: what it bundles by itself.
Place == {"down", "look", "build", "publish", "replace", "again", "prune", "remove",
          "adopt", "serving", "bundling"}
Proc == [at : Place, key : Key, victims : SUBSET Key, due : BOOLEAN, bundle : Key \cup {None}]

TabState == [bundle : Key \cup {None}, seen : Key \cup {None}, told : BOOLEAN, open : BOOLEAN]
NoTab == [bundle |-> None, seen |-> None, told |-> FALSE, open |-> FALSE]

WebTypeOK ==
    /\ webenv \in WebEnvs /\ web \in Key
    /\ edits \in 0 .. MaxEdits /\ ticks \in 0 .. MaxTicks
    /\ dirs \in [Key -> Dir] /\ tmp \in [Broker -> Dir]
    /\ brokers \in [Broker -> Proc] /\ tab \in TabState

WebInit ==
    /\ webenv \in WebEnvs /\ web \in Key /\ edits = 0 /\ ticks = 0
    /\ dirs \in [Key -> {NoDir, [is |-> "junk", of |-> None, age |-> PruneAge]}]
    /\ tmp = [b \in Broker |-> NoDir]
    /\ brokers = [b \in Broker |-> [at |-> "down", key |-> web, victims |-> {}, due |-> FALSE,
                                    bundle |-> None]]
    /\ tab = NoTab

-----------------------------------------------------------------------------
(* A broker starts *)

Goes(b, at)  == brokers' = [brokers EXCEPT ![b].at = at]
Starting(b)  == brokers[b].at \notin {"down", "serving", "bundling"}
Mine(b)      == dirs[brokers[b].key]
isCompleteDist(b) == Mine(b).is = "complete"
Aged(d)      == d.is # "absent" /\ d.age >= PruneAge

\* The key is computed when the module is loaded.
start(b) ==
    /\ brokers[b].at = "down"
    /\ "close" \in webenv \/ ~\E o \in Broker : Starting(o) /\ Aged(Mine(o))
    /\ brokers' = [brokers EXCEPT ![b] = [at |-> "look", key |-> web, victims |-> {},
                                          due |-> FALSE, bundle |-> None]]
    /\ UNCHANGED <<webenv, web, edits, ticks, dirs, tmp, tab>>

\* ensureWebDist: the directory is there, or a temporary one is made.
look(b) ==
    /\ brokers[b].at = "look"
    /\ \/ /\ isCompleteDist(b)
          /\ \/ ~Aged(Mine(b)) \/ "close" \in webenv
             \/ \A o \in Broker \ {b} : ~Starting(o)
          /\ Goes(b, "adopt") /\ UNCHANGED tmp
       \/ /\ ~isCompleteDist(b)
          /\ tmp' = [tmp EXCEPT ![b] = [NoDir EXCEPT !.is = "junk"]]
          /\ Goes(b, "build")
    /\ UNCHANGED <<webenv, web, edits, ticks, dirs, tab>>

\* The child process builds; without an index.html the broker bundles.
build(b) ==
    /\ brokers[b].at = "build"
    /\ \/ /\ tmp[b].is # "absent"
          /\ tmp' = [tmp EXCEPT ![b] = [is |-> "complete", of |-> web, age |-> 0]]
          /\ Goes(b, "publish")
       \/ tmp' = [tmp EXCEPT ![b] = NoDir] /\ Goes(b, "bundling")
    /\ UNCHANGED <<webenv, web, edits, ticks, dirs, tab>>

CanRename(b) == tmp[b].is = "complete" /\ Mine(b).is = "absent"
Renamed(b) ==
    /\ CanRename(b)
    /\ dirs' = [dirs EXCEPT ![brokers[b].key] = tmp[b]]
    /\ tmp' = [tmp EXCEPT ![b] = NoDir]
    /\ Goes(b, "prune")

Discarded(b, at) == tmp' = [tmp EXCEPT ![b] = NoDir] /\ Goes(b, at) /\ UNCHANGED dirs

\* (Mutation: who loses does not look whether the winner's is whole.)
publishOver(b) ==
    /\ brokers[b].at = "publish"
    /\ Renamed(b) \/ (~CanRename(b) /\ Goes(b, "replace") /\ UNCHANGED <<dirs, tmp>>)
    /\ UNCHANGED <<webenv, web, edits, ticks, tab>>

\* The rename into place; who loses takes the winner's.
publish(b) ==
    /\ brokers[b].at = "publish"
    /\ \/ Renamed(b)
       \/ /\ ~CanRename(b)
          /\ IF isCompleteDist(b) THEN Discarded(b, "adopt")
             ELSE Goes(b, "replace") /\ UNCHANGED <<dirs, tmp>>
    /\ UNCHANGED <<webenv, web, edits, ticks, tab>>

\* What is in the way is removed, whatever it has become.
replace(b) ==
    /\ brokers[b].at = "replace"
    /\ dirs' = [dirs EXCEPT ![brokers[b].key] = NoDir]
    /\ Goes(b, "again")
    /\ UNCHANGED <<webenv, web, edits, ticks, tmp, tab>>

again(b) ==
    /\ brokers[b].at = "again"
    /\ \/ Renamed(b)
       \/ /\ ~CanRename(b)
          /\ Discarded(b, IF isCompleteDist(b) THEN "adopt" ELSE "bundling")
    /\ UNCHANGED <<webenv, web, edits, ticks, tab>>

\* pruneWebDist: an age is read, then the directory is removed.
prune(b) ==
    /\ brokers[b].at = "prune"
    /\ brokers' = [brokers EXCEPT ![b].at = "remove",
                                  ![b].victims = {k \in Key \ {brokers[b].key} : Aged(dirs[k])}]
    /\ UNCHANGED <<webenv, web, edits, ticks, dirs, tmp, tab>>

remove(b) ==
    /\ brokers[b].at = "remove"
    /\ dirs' = [k \in Key |-> IF k \in brokers[b].victims THEN NoDir ELSE dirs[k]]
    /\ tmp' = [o \in Broker |-> IF Aged(tmp[o]) THEN NoDir ELSE tmp[o]]
    /\ Goes(b, "adopt")
    /\ UNCHANGED <<webenv, web, edits, ticks, tab>>

Touched(k) == dirs' = [dirs EXCEPT ![k].age = 0]

\* keepWebDistAlive: at once, and then every ten minutes.
keepWebDistAlive(b) ==
    /\ brokers[b].at = "adopt"
    /\ Goes(b, "serving") /\ Touched(brokers[b].key)
    /\ UNCHANGED <<webenv, web, edits, ticks, tmp, tab>>

touch(b) ==
    /\ brokers[b].at = "serving" /\ brokers[b].due
    /\ brokers' = [brokers EXCEPT ![b].due = FALSE]
    /\ Touched(brokers[b].key)
    /\ UNCHANGED <<webenv, web, edits, ticks, tmp, tab>>

\* It stops, or is killed, at any point; what it was building is litter.
stop(b) ==
    /\ brokers[b].at # "down"
    /\ \/ b # User \/ tab.bundle = None \/ tab.seen # None \/ "swapped" \in webenv
    /\ brokers' = [brokers EXCEPT ![b].at = "down", ![b].due = FALSE]
    /\ tmp' = [tmp EXCEPT ![b] = NoDir]
    /\ tab' = IF b = User THEN [tab EXCEPT !.open = FALSE] ELSE tab
    /\ UNCHANGED <<webenv, web, edits, ticks, dirs>>

-----------------------------------------------------------------------------
(* The tab *)

Up == brokers[User].at \in {"serving", "bundling"}

\* What a broker that bundles by itself bundles, at the first request.
Bundled == IF brokers[User].bundle = None THEN web ELSE brokers[User].bundle

load ==
    /\ Up
    /\ \/ /\ brokers[User].at = "serving" /\ Mine(User).is = "complete"
          /\ tab' = [NoTab EXCEPT !.bundle = Mine(User).of]
          /\ UNCHANGED brokers
       \/ /\ brokers[User].at = "bundling"
          /\ brokers' = [brokers EXCEPT ![User].bundle = Bundled]
          /\ tab' = [NoTab EXCEPT !.bundle = Bundled]
    /\ UNCHANGED <<webenv, web, edits, ticks, dirs, tmp>>

\* (Mutation: the id is remembered before it is compared.)
noteBuildIdLast(id) == [tab EXCEPT !.seen = id]

\* noteBuildId: told is set once, by an id that is not the first.
noteBuildId(id) ==
    [tab EXCEPT !.seen = IF @ = None THEN id ELSE @,
                !.told = @ \/ (tab.seen # None /\ id # tab.seen)]

\* A socket opens, and the broker says hello.
hello ==
    /\ Up /\ tab.bundle # None /\ ~tab.open
    /\ tab' = [noteBuildId(brokers[User].key) EXCEPT !.open = TRUE]
    /\ UNCHANGED <<webenv, web, edits, ticks, dirs, tmp, brokers>>

drop ==
    /\ tab.open /\ tab' = [tab EXCEPT !.open = FALSE]
    /\ UNCHANGED <<webenv, web, edits, ticks, dirs, tmp, brokers>>

-----------------------------------------------------------------------------
(* The world *)

edit ==
    /\ edits < MaxEdits /\ edits' = edits + 1
    /\ \/ "edited" \in webenv
       \/ \A b \in Broker : ~Starting(b) /\ ~(brokers[b].at = "bundling" /\ brokers[b].bundle = None)
    /\ web' \in Key \ {web}
    /\ UNCHANGED <<webenv, ticks, dirs, tmp, brokers, tab>>

Older(d) == IF d.is # "absent" /\ d.age < PruneAge THEN [d EXCEPT !.age = @ + 1] ELSE d

\* A start takes minutes at most, and a touch is never late by a tick.
Tick ==
    /\ ticks < MaxTicks /\ ticks' = ticks + 1
    /\ \/ "asleep" \in webenv
       \/ \A b \in Broker : ~Starting(b) /\ ~brokers[b].due
    /\ dirs' = [k \in Key |-> Older(dirs[k])]
    /\ tmp' = [b \in Broker |-> Older(tmp[b])]
    /\ brokers' = [b \in Broker |-> [brokers[b] EXCEPT !.due = brokers[b].at = "serving"]]
    /\ UNCHANGED <<webenv, web, edits, tab>>

WebNext ==
    \/ \E b \in Broker : \/ start(b) \/ look(b) \/ build(b) \/ publish(b) \/ replace(b)
                         \/ again(b) \/ prune(b) \/ remove(b) \/ keepWebDistAlive(b)
                         \/ touch(b) \/ stop(b)
    \/ load \/ hello \/ drop \/ edit \/ Tick

WebSpec == WebInit /\ [][WebNext]_wvars

-----------------------------------------------------------------------------
(* Properties *)

\* A broker that serves a build serves one that is there, whole, and of the
\* sources its id was computed from; whatever the other brokers of the
\* checkout build, replace and remove (ensureWebDist, pruneWebDist,
\* keepWebDistAlive: "so another broker's prune never deletes it").
ServedIsThere ==
    \A b \in Broker :
      brokers[b].at = "serving" => Mine(b).is = "complete" /\ Mine(b).of = brokers[b].key

\* A tab that is connected to a broker with another build than its own says so
\* (noteBuildId).
StaleIsTold ==
    tab.open /\ tab.bundle # brokers[User].key => tab.told

-----------------------------------------------------------------------------
(* The inductive invariant *)

\* Who starts has the key of the sources as they are, for they do not change
\* meanwhile, and what it builds is as new as they are.
StartersAgree ==
    \A b \in Broker :
      /\ (Starting(b) => brokers[b].key = web /\ ~brokers[b].due)
      /\ (brokers[b].at = "build" => tmp[b] = [NoDir EXCEPT !.is = "junk"])
      /\ (brokers[b].at \in {"publish", "replace", "again"} =>
            tmp[b] = [is |-> "complete", of |-> web, age |-> 0])
      /\ (brokers[b].at \notin {"build", "publish", "replace", "again"} => tmp[b] = NoDir)

\* A complete directory is what its name says; litter is old, and a broker that
\* finds litter in its way starts alone.
DirsAreNamed ==
    /\ \A k \in Key : /\ (dirs[k].is = "complete" => dirs[k].of = k)
                      /\ (dirs[k].is = "junk" => dirs[k].age = PruneAge)
    /\ \A b, o \in Broker : Starting(b) /\ Starting(o) /\ dirs[web].is = "junk" => b = o
    /\ \A b \in Broker : brokers[b].at = "replace" => dirs[web].is = "junk"

\* What is served, or about to be, is there.
TakenIsThere ==
    \A b \in Broker :
      brokers[b].at \in {"prune", "remove", "adopt", "serving"} => isCompleteDist(b)

\* What is served is touched before it is old.
ServedIsTouched ==
    \A b \in Broker : brokers[b].at = "serving" =>
      Mine(b).age =< 1 /\ (Mine(b).age = 1 => brokers[b].due)

\* Nobody uses what a broker is about to remove, or will while it is.
VictimsAreUnused ==
    \A b \in Broker : brokers[b].at = "remove" =>
      /\ web \notin brokers[b].victims
      /\ \A o \in Broker : brokers[o].at = "serving" => brokers[o].key \notin brokers[b].victims

WebInv == WebTypeOK /\ StartersAgree /\ DirsAreNamed /\ TakenIsThere /\ ServedIsTouched /\ VictimsAreUnused

\* A broker that bundles by itself bundles what it was started from.
BundlesAgree ==
    \A b \in Broker :
      /\ (Starting(b) => brokers[b].bundle = None)
      /\ (brokers[b].at = "bundling" =>
            IF brokers[b].bundle = None THEN brokers[b].key = web
            ELSE brokers[b].bundle = brokers[b].key)

\* The first id a tab sees is that of its own bundle.
TabIsTold ==
    /\ (tab.bundle # None /\ tab.seen = None => Up /\ tab.bundle = brokers[User].key)
    /\ (tab.seen # None => tab.seen = tab.bundle)
    /\ (tab.open => Up /\ tab.seen # None)
    /\ StaleIsTold

TabInv == BundlesAgree /\ TabIsTold
================================================================================
