--------------------------- MODULE PluginDownloads ---------------------------
(***************************************************************************)
(* Installations from the registry (PluginRegistryInstaller) up to the     *)
(* unpacked directory, and the queue of downloads they share               *)
(* (DownloadManager). A tarball has a place in the cache and a temporary   *)
(* file beside it; a download that is asked for again while it is under    *)
(* way is shared. No caller of the code gives a signal to abort.           *)
(* Not modelled: the metadata of a package, progress, the downloads of     *)
(* plugin sources, which use the same queue; PluginHost goes on with what  *)
(* was unpacked.                                                           *)
(***************************************************************************)
EXTENDS Naturals, Sequences

CONSTANTS Installs,       \* calls of installFromRegistry, one after the other each
          Tarballs,
          Concurrency,    \* downloads at a time
          MaxStarts       \* bound: installations

ASSUME DownloadAssumption == Concurrency \in Nat \ {0} /\ MaxStarts \in Nat

VARIABLES
    cached, partial,    \* per tarball: "none", "part", "good" or "bad"
    inflight,       \* per tarball: its download, and the file it has open
    waiting,        \* queue: downloads that wait for their turn
    downloading,
    installs,       \* per call: where it is, and its tarball
    shared,         \* ghost: tarballs that two installations work on at once
    starts

downloadVars == <<cached, partial, inflight, waiting, downloading, installs, shared, starts>>

Contents == {"none", "part", "good", "bad"}
NoDownload == [pc |-> "none", file |-> "none"]
NoInstall == [pc |-> "idle", of |-> "none"]
Working(t) == {i \in Installs : installs[i].pc # "idle" /\ installs[i].of = t}
Move(i, pc) == installs' = [installs EXCEPT ![i] = IF pc = "idle" THEN NoInstall
                                                   ELSE [@ EXCEPT !.pc = pc]]

-----------------------------------------------------------------------------
(* DownloadManager                                                           *)

\* enqueue: the download under way, or a new one, that begins if there is room.
enqueue(t) ==
    IF inflight[t].pc # "none" THEN UNCHANGED <<inflight, waiting, downloading>>
    ELSE IF downloading < Concurrency
    THEN /\ inflight' = [inflight EXCEPT ![t].pc = "fetching"]
         /\ downloading' = downloading + 1 /\ UNCHANGED waiting
    ELSE /\ inflight' = [inflight EXCEPT ![t].pc = "queued"]
         /\ waiting' = Append(waiting, t) /\ UNCHANGED downloading

\* A download is over, for all who wait for it, and drain begins the next one.
SettleDownload(t, pc) ==
    /\ IF waiting = <<>>
       THEN /\ inflight' = [inflight EXCEPT ![t] = NoDownload]
            /\ downloading' = downloading - 1 /\ UNCHANGED waiting
       ELSE /\ inflight' = [inflight EXCEPT ![t] = NoDownload,
                                            ![Head(waiting)].pc = "fetching"]
            /\ waiting' = Tail(waiting) /\ UNCHANGED downloading
    /\ installs' = [i \in Installs |->
                      IF i \in Working(t) /\ installs[i].pc = "downloading"
                      THEN [installs[i] EXCEPT !.pc = pc] ELSE installs[i]]

\* run: the server answers, and the target is opened and truncated.
OpenTarget(t) ==
    /\ inflight[t].pc = "fetching"
    /\ inflight' = [inflight EXCEPT ![t] = [pc |-> "writing", file |-> "temp"]]
    /\ partial' = [partial EXCEPT ![t] = "part"]
    /\ UNCHANGED <<cached, waiting, downloading, installs, shared, starts>>

\* The body has been written, to wherever the file that was opened is now.
FinishDownload(t) ==
    /\ inflight[t].pc = "writing"
    /\ \E content \in {"good", "bad"} :
          /\ partial' = IF inflight[t].file = "temp" THEN [partial EXCEPT ![t] = content] ELSE partial
          /\ cached' = IF inflight[t].file = "cache" THEN [cached EXCEPT ![t] = content] ELSE cached
    /\ SettleDownload(t, "renaming")
    /\ UNCHANGED <<shared, starts>>

\* The network, the disk or the time-out fails the download.
FailDownload(t) ==
    /\ inflight[t].pc \in {"fetching", "writing"}
    /\ SettleDownload(t, "removingFailed")
    /\ UNCHANGED <<cached, partial, shared, starts>>

-----------------------------------------------------------------------------
(* installFromRegistry, of tarball t                                         *)

StartInstall(i, t) ==
    /\ installs[i].pc = "idle" /\ starts < MaxStarts
    /\ starts' = starts + 1
    /\ installs' = [installs EXCEPT ![i] = [pc |-> "looking", of |-> t]]
    /\ shared' = IF Working(t) = {} THEN shared \ {t} ELSE shared \union {t}
    /\ UNCHANGED <<cached, partial, inflight, waiting, downloading>>

\* ensureTarball: a file in the cache is verified, and downloaded if it fails.
Look(i) ==
    /\ installs[i].pc = "looking"
    /\ IF cached[installs[i].of] # "none"
       THEN Move(i, "checking") /\ UNCHANGED <<inflight, waiting, downloading>>
       ELSE Move(i, "downloading") /\ enqueue(installs[i].of)
    /\ UNCHANGED <<cached, partial, shared, starts>>

BugCheck(i) ==
    /\ installs[i].pc = "checking"
    /\ Move(i, "extracting")
    /\ UNCHANGED <<cached, partial, inflight, waiting, downloading, shared, starts>>

Check(i) ==
    /\ installs[i].pc = "checking"
    /\ IF cached[installs[i].of] = "good"
       THEN Move(i, "verifying") /\ UNCHANGED <<inflight, waiting, downloading>>
       ELSE Move(i, "downloading") /\ enqueue(installs[i].of)
    /\ UNCHANGED <<cached, partial, shared, starts>>

\* The temporary file takes its place in the cache, with whoever writes to it;
\* it is not there when another installation has renamed or removed it.
RenameTarball(i) ==
    /\ installs[i].pc = "renaming"
    /\ LET t == installs[i].of IN
       IF partial[t] = "none"
       THEN Move(i, "removingFailed") /\ UNCHANGED <<cached, partial, inflight>>
       ELSE /\ cached' = [cached EXCEPT ![t] = partial[t]]
            /\ partial' = [partial EXCEPT ![t] = "none"]
            /\ inflight' = [inflight EXCEPT ![t].file = IF @ = "temp" THEN "cache" ELSE @]
            /\ Move(i, "removing")
    /\ UNCHANGED <<waiting, downloading, shared, starts>>

\* The temporary file is removed in any case, also another's.
RemoveTemp(i) ==
    /\ installs[i].pc \in {"removing", "removingFailed"}
    /\ LET t == installs[i].of IN
       /\ partial' = [partial EXCEPT ![t] = "none"]
       /\ inflight' = [inflight EXCEPT ![t].file = IF @ = "temp" THEN "gone" ELSE @]
    /\ Move(i, IF installs[i].pc = "removing" THEN "verifying" ELSE "idle")
    /\ UNCHANGED <<cached, waiting, downloading, shared, starts>>

Verify(i) ==
    /\ installs[i].pc = "verifying"
    /\ Move(i, IF cached[installs[i].of] = "good" THEN "extracting" ELSE "idle")
    /\ UNCHANGED <<cached, partial, inflight, waiting, downloading, shared, starts>>

\* The file in the cache is read again, and unpacked.
Extract(i) ==
    /\ installs[i].pc = "extracting"
    /\ Move(i, "idle")
    /\ UNCHANGED <<cached, partial, inflight, waiting, downloading, shared, starts>>

-----------------------------------------------------------------------------
DownloadInit ==
    /\ cached = [t \in Tarballs |-> "none"] /\ partial = [t \in Tarballs |-> "none"]
    /\ inflight = [t \in Tarballs |-> NoDownload] /\ waiting = <<>> /\ downloading = 0
    /\ installs = [i \in Installs |-> NoInstall]
    /\ shared = {} /\ starts = 0

InstallStep(i) ==
    \/ Look(i)
    \/ Check(i)
    \/ RenameTarball(i)
    \/ RemoveTemp(i)
    \/ Verify(i)
    \/ Extract(i)

DownloadNext ==
    \/ \E t \in Tarballs : OpenTarget(t)
    \/ \E t \in Tarballs : FinishDownload(t)
    \/ \E t \in Tarballs : FailDownload(t)
    \/ \E i \in Installs, t \in Tarballs : StartInstall(i, t)
    \/ \E i \in Installs : InstallStep(i)

\* A download that has begun ends, by its time-out at the latest, and each
\* installation goes on when the file operation it waits for is over.
DownloadFairness ==
    /\ \A t \in Tarballs : WF_downloadVars(FinishDownload(t) \/ FailDownload(t))
    /\ \A i \in Installs : WF_downloadVars(InstallStep(i))

DownloadSpec == DownloadInit /\ [][DownloadNext]_downloadVars /\ DownloadFairness

-----------------------------------------------------------------------------
\* Downloads and installations are where they can be.
DownloadTypeOK ==
    /\ cached \in [Tarballs -> Contents] /\ partial \in [Tarballs -> Contents]
    /\ inflight \in [Tarballs -> [pc : {"none", "queued", "fetching", "writing"},
                                  file : {"none", "temp", "cache", "gone"}]]
    /\ waiting \in Seq(Tarballs) /\ downloading \in 0..Concurrency
    /\ installs \in [Installs -> [pc : {"idle", "looking", "checking", "downloading", "renaming",
                                        "removing", "removingFailed", "verifying", "extracting"},
                                  of : Tarballs \union {"none"}]]
    /\ shared \subseteq Tarballs /\ starts \in 0..MaxStarts

\* What is unpacked has been verified, unless another installation of the same
\* tarball, which may replace the file after that, runs at the same time;
\* a file of the cache that was cut short or is damaged is never unpacked.
UnpacksWhatItVerified ==
    \A i \in Installs :
        installs[i].pc = "extracting" => cached[installs[i].of] = "good" \/ installs[i].of \in shared

\* Every installation ends: its turn comes, and a download that others share,
\* fail or repeat settles for all who wait for it.
InstallsEnd ==
    LET running == {i \in Installs : installs[i].pc # "idle"}
    IN  running # {} ~> running = {}
=============================================================================
