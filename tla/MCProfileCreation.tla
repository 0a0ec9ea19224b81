------------------------- MODULE MCProfileCreation -------------------------
(***************************************************************************)
(* The instance of ProfileCreation and of ProfileSettings that TLC checks. *)
(* They share no state: a behaviour is one of the two.                     *)
(***************************************************************************)
EXTENDS ProfileCreation, ProfileSettings

Plain == Machine("Windows", "nvidia", "nvidia", TRUE, 8, 16)

\* One answer for each way in which the pipeline treats one.
MCZenAnswers ==
    {Plain,
     [Plain EXCEPT !.native = TRUE],                       \* sanitized, then usable
     [Plain EXCEPT !.full = 0],                            \* against the schema
     [Plain EXCEPT !.renderer = "amd"],                    \* incoherent
     [Plain EXCEPT !.memory = 2, !.ram = 2],               \* coherent, by a hair
     Machine("Mac", "apple", "apple", FALSE, 8, 16)}       \* another system

\* Out of a hundred, and beyond: enough to outvote a flag of automation (113), or no
\* scan at all (144).
MCOpinionScores == {0, 75, 100, 113, 144}

VARIABLE part

MCInit ==
    /\ CreationInit /\ SettingsInit
    /\ \/ part = "creation" /\ ~proxyRequired
       \/ part = "settings" /\ gated = [c \in Callers |-> TRUE]

MCNext ==
    /\ UNCHANGED part
    /\ \/ part = "creation" /\ CreationNext /\ UNCHANGED settingsVars
       \/ part = "settings" /\ SettingsNext /\ UNCHANGED creationVars

\* The fairness is that of the creation: a behaviour of the settings, which is
\* not fair in this sense, is subject to the invariants only.
MCSpec == MCInit /\ [][MCNext]_<<part, creationVars, settingsVars>> /\ CreationFairness
=============================================================================
