---------------------------- MODULE MCDesktopFiles ----------------------------
(***************************************************************************)
(* What the desktop app keeps on its disk, on small instances and in one   *)
(* run: managed settings, settings, preferences, the device credential and *)
(* the time.                                                               *)
(* These parts share no state here, so that a behaviour is one of a single *)
(* part while the others stay as they are at first. At first no part has a *)
(* fair action enabled, so that the fairness of the parts that stay asks   *)
(* nothing of them.                                                        *)
(***************************************************************************)
EXTENDS ManagedSettings, SettingsStore, PreferenceStore, CredentialStore,
        TimeSync

CONSTANTS p, c1, c2, c3, n1, n2

VARIABLE part

partVars == <<managedVars, settingsVars, preferenceVars, credentialVars, timeVars,
              part>>

FilesInit ==
    /\ part \in {"managed", "settings", "preferences", "credential", "time"}
    /\ ManagedInit /\ SettingsInit /\ PreferenceInit /\ CredentialInit /\ TimeInit
    /\ part # "time" => legacy = Absent
    /\ part # "credential" => files.mirror = 0

FilesNext ==
    /\ UNCHANGED part
    /\ \/ part = "managed" /\ ManagedNext
       \/ part # "managed" /\ UNCHANGED managedVars
    /\ \/ part = "settings" /\ SettingsNext
       \/ part # "settings" /\ UNCHANGED settingsVars
    /\ \/ part = "preferences" /\ PreferenceNext
       \/ part # "preferences" /\ UNCHANGED preferenceVars
    /\ \/ part = "credential" /\ CredentialNext
       \/ part # "credential" /\ UNCHANGED credentialVars
    /\ \/ part = "time" /\ TimeNext
       \/ part # "time" /\ UNCHANGED timeVars

FilesSpec ==
    /\ FilesInit /\ [][FilesNext]_partVars
    /\ ManagedFairness /\ SettingsFairness /\ PreferenceFairness /\ CredentialFairness

\* The types of all parts
FilesTypeOK ==
    ManagedTypeOK /\ SettingsTypeOK /\ PreferenceTypeOK /\ CredentialTypeOK /\ TimeTypeOK

\* Whatever fails, a change is saved or a failure is known, a caller is answered,
\* and the file of the credential is restored.
EverythingSettles == ChangesAreSaved /\ CallsAreAnswered /\ FileIsRestored
=============================================================================
