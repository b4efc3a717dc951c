---------------------------- MODULE ReminderSound ----------------------------
(***************************************************************************)
(* createReminderSoundController: the sounds of reminders in a window, one *)
(* media element for a kind, kept and used again. play() of an element     *)
(* answers with a promise that may settle long after another sound was     *)
(* asked for, and stopping an element rejects it later still.              *)
(*                                                                         *)
(* A step is one task of the window. A media element is silent, sounding   *)
(* from the moment play() is called, or over. Its own functions do not     *)
(* throw; finding the source and making the element may.                   *)
(***************************************************************************)
EXTENDS Naturals, Sequences, FiniteSets

CONSTANTS SoundKinds,     \* kinds of reminders
          Sources,        \* sound packs the user may choose
          MaxGeneration   \* bound: requests, stops and the disposal

ASSUME SoundAssumption ==
    IsFiniteSet(SoundKinds) /\ Sources # {} /\ MaxGeneration \in Nat

VARIABLES
    selected,      \* the pack that sourceProvider reads
    generation,    \* generation
    elements,      \* every element made
    cache,         \* cache: the element of a kind, or 0
    plays,         \* what play and preview were asked for
    playing,       \* active: a request, or 0
    soundDisposed  \* disposed

soundVars == <<selected, generation, elements, cache, plays, playing, soundDisposed>>

\* managed: in managedAudios, so with its listener; tracked: in allAudios
Element(k, src) ==
    [kind |-> k, source |-> src, sound |-> "silent", pending |-> 0,
     retired |-> FALSE, managed |-> TRUE, tracked |-> TRUE]

Request(k, e, outcome) ==
    [kind |-> k, element |-> e, outcome |-> outcome, generation |-> generation + 1,
     promised |-> outcome = "waiting"]

Cached == {cache[k] : k \in SoundKinds} \ {0}
Sounding == {e \in DOMAIN elements : elements[e].sound = "sounding"}

BugSilent(el) == el

\* prepareReset and resetBestEffort
Silent(el) == [el EXCEPT !.sound = IF @ = "sounding" THEN "silent" ELSE @]

\* An element leaves the cache with its listener removed: releaseRetired forgets
\* it once no play of it is pending.
Retired(el) ==
    [Silent(el) EXCEPT !.retired = TRUE, !.managed = el.pending > 0, !.tracked = el.pending > 0]

\* invalidateActive
Invalidated(reason) ==
    [r \in DOMAIN plays |-> IF r = playing THEN [plays[r] EXCEPT !.outcome = reason]
                                             ELSE plays[r]]

-----------------------------------------------------------------------------
NextGeneration == generation < MaxGeneration /\ generation' = generation + 1

\* A request that plays nothing: it still supersedes the one before it.
Refuse(k, outcome) ==
    /\ plays' = Append(Invalidated("superseded"), Request(k, 0, outcome))
    /\ playing' = 0

\* The switches are off. What sounds already goes on.
Disabled(k) ==
    /\ ~soundDisposed /\ NextGeneration
    /\ Refuse(k, "disabled")
    /\ UNCHANGED <<selected, elements, cache, soundDisposed>>

\* A play of the cached element is pending: it is not used again.
Busy(k) == cache[k] # 0 /\ elements[cache[k]].pending > 0

\* The cached element that a request for k does not use again
Outdated(k) == cache[k] # 0 /\ (Busy(k) \/ elements[cache[k]].source # selected)

\* getAudio throws: sourceProvider does, and then an element whose play is pending
\* has been retired, or audioFactory does, and then an outdated one has been.
LoadFails(k) ==
    /\ ~soundDisposed /\ NextGeneration
    /\ Refuse(k, "playback-error")
    /\ \/ /\ Outdated(k)
          /\ elements' = [elements EXCEPT ![cache[k]] = Retired(@)]
          /\ cache' = [cache EXCEPT ![k] = 0]
       \/ ~Busy(k) /\ UNCHANGED <<elements, cache>>
    /\ UNCHANGED <<selected, soundDisposed>>

\* begin: the element of the kind is kept when it is idle and has the source
\* that is chosen by now; the elements of the other kinds are silenced.
begin(k) ==
    LET old  == cache[k]
        keep == old # 0 /\ ~Outdated(k)
        made == IF keep THEN elements ELSE Append(elements, Element(k, selected))
        e    == IF keep THEN old ELSE Len(made)
    IN  /\ ~soundDisposed /\ NextGeneration
        /\ elements' = [n \in DOMAIN made |->
                          CASE n = e -> [made[n] EXCEPT !.sound = "sounding", !.pending = @ + 1]
                            [] n = old /\ n # e         -> Retired(made[n])
                            [] n \in Cached \ {e, old}  -> Silent(made[n])
                            [] OTHER                    -> made[n]]
        /\ cache' = [cache EXCEPT ![k] = e]
        /\ plays' = Append(Invalidated("superseded"), Request(k, e, "waiting"))
        /\ playing' = Len(plays) + 1
        /\ UNCHANGED <<selected, soundDisposed>>

-----------------------------------------------------------------------------
\* Something else was asked for since, or the request has been answered.
Stale(r) ==
    \/ plays[r].generation # generation
    \/ soundDisposed
    \/ plays[r].outcome # "waiting"

\* The promise of play() settles. A late one silences the element again; a
\* retired element is forgotten with its last promise.
PlaySettles(r, ok) ==
    LET e    == plays[r].element
        left == elements[e].pending - 1
        gone == elements[e].retired /\ left = 0
        then == IF Stale(r) \/ ~ok THEN Silent(elements[e]) ELSE elements[e]
    IN  /\ plays[r].promised
        /\ ok => elements[e].sound # "silent"
        /\ elements' = [elements EXCEPT ![e] =
              [then EXCEPT !.pending = left, !.managed = @ /\ ~gone, !.tracked = @ /\ ~gone]]
        /\ plays' = [plays EXCEPT ![r].promised = FALSE,
                           ![r].outcome = IF Stale(r) THEN @
                                          ELSE IF ok THEN "ok" ELSE "playback-error"]
        /\ playing' = IF Stale(r) THEN playing ELSE 0
        /\ UNCHANGED <<selected, generation, cache, soundDisposed>>

\* The error event of an element: its listener answers for the request that
\* plays it.
MediaError(e) ==
    /\ elements[e].sound = "sounding"
    /\ elements' = [elements EXCEPT ![e].sound = "over"]
    /\ IF playing # 0 /\ plays[playing].element = e /\ elements[e].managed
          /\ ~elements[e].retired
       THEN /\ plays' = [plays EXCEPT ![playing].outcome = "playback-error"]
            /\ playing' = 0
       ELSE UNCHANGED <<plays, playing>>
    /\ UNCHANGED <<selected, generation, cache, soundDisposed>>

\* A sound is over.
SoundEnds(e) ==
    /\ elements[e].sound = "sounding"
    /\ elements' = [elements EXCEPT ![e].sound = "over"]
    /\ UNCHANGED <<selected, generation, cache, plays, playing, soundDisposed>>

-----------------------------------------------------------------------------
stop ==
    /\ ~soundDisposed /\ NextGeneration
    /\ plays' = Invalidated("superseded") /\ playing' = 0
    /\ elements' = [e \in DOMAIN elements |->
                      CASE e \in Cached                              -> Retired(elements[e])
                        [] e \notin Cached /\ elements[e].tracked    -> Silent(elements[e])
                        [] OTHER                                     -> elements[e]]
    /\ cache' = [k \in SoundKinds |-> 0]
    /\ UNCHANGED <<selected, soundDisposed>>

dispose ==
    /\ ~soundDisposed /\ NextGeneration /\ soundDisposed' = TRUE
    /\ plays' = Invalidated("disposed") /\ playing' = 0
    /\ elements' = [e \in DOMAIN elements |->
                      IF elements[e].managed
                      THEN [Silent(elements[e]) EXCEPT !.managed = FALSE, !.tracked = FALSE]
                      ELSE elements[e]]
    /\ cache' = [k \in SoundKinds |-> 0]
    /\ UNCHANGED selected

selectPack(src) ==
    /\ src # selected /\ selected' = src
    /\ UNCHANGED <<generation, elements, cache, plays, playing, soundDisposed>>

-----------------------------------------------------------------------------
SoundInit ==
    /\ selected \in Sources /\ generation = 0 /\ elements = <<>>
    /\ cache = [k \in SoundKinds |-> 0]
    /\ plays = <<>> /\ playing = 0 /\ soundDisposed = FALSE

SoundNext ==
    \/ \E k \in SoundKinds : Disabled(k) \/ LoadFails(k) \/ begin(k)
    \/ \E r \in DOMAIN plays, ok \in BOOLEAN : PlaySettles(r, ok)
    \/ \E e \in DOMAIN elements : MediaError(e) \/ SoundEnds(e)
    \/ \E src \in Sources : selectPack(src)
    \/ stop \/ dispose

SoundSpec == SoundInit /\ [][SoundNext]_soundVars

-----------------------------------------------------------------------------
ElementStates ==
    [kind : SoundKinds, source : Sources, sound : {"silent", "sounding", "over"},
     pending : Nat, retired : BOOLEAN, managed : BOOLEAN, tracked : BOOLEAN]

Outcomes == {"waiting", "ok", "disabled", "superseded", "playback-error", "disposed"}

RequestStates ==
    [kind : SoundKinds, element : 0..Len(elements), outcome : Outcomes,
     generation : 1..MaxGeneration, promised : BOOLEAN]

\* Requests and elements refer to each other.
SoundTypeOK ==
    /\ selected \in Sources /\ generation \in 0..MaxGeneration
    /\ elements \in Seq(ElementStates)
    /\ cache \in [SoundKinds -> 0..Len(elements)]
    /\ plays \in Seq(RequestStates)
    /\ playing \in 0..Len(plays) /\ soundDisposed \in BOOLEAN

\* However late the promises settle, two sounds are never heard at once, and none
\* after the controller was disposed of.
OneSoundIsHeard ==
    Cardinality(Sounding) <= 1 /\ (soundDisposed => Sounding = {})

\* The sound that was asked for last is not silenced by what an earlier request
\* leaves behind: it is heard until it is over or fails.
NewestIsHeard ==
    \A r \in DOMAIN plays :
        plays[r].generation = generation /\ plays[r].outcome = "ok" =>
            elements[plays[r].element].sound # "silent"

\* A request that is not answered is the active one, so that whatever comes next
\* answers it; and an element that is kept is cached or has a promise to come.
NothingIsForgotten ==
    /\ \A r \in DOMAIN plays : plays[r].outcome = "waiting" <=> r = playing
    /\ \A e \in DOMAIN elements : elements[e].managed => e \in Cached \/ elements[e].pending > 0
    /\ \A e \in Sounding : elements[e].managed

\* All three: a reminder is heard alone, until it is over, and nothing stays behind.
SoundsAreRight == OneSoundIsHeard /\ NewestIsHeard /\ NothingIsForgotten
=============================================================================
