-------------------------- MODULE FingerprintRules --------------------------
(***************************************************************************)
(* What creation and launch say of a fingerprint: the schema of an answer  *)
(* (ai_generator.py), the score of its coherence                           *)
(* (ai_coherence_validator.py), the decision over a scan and a second      *)
(* opinion (ai_auto_validator.py), the fingerprints that the local         *)
(* generator gives, and the two gates of a launch that look at what        *)
(* creation stored (browser_manager.py, ai_leak_scanner.py).               *)
(* A string is kept as what the rules read in it: a graphics vendor and a  *)
(* renderer are the brand they name, the user agent, sec-ch-ua and the     *)
(* full version of the hints are the major they show, 0 for none.          *)
(***************************************************************************)
EXTENDS Integers, FiniteSets

CONSTANTS InstalledMajor,  \* major version of the engine that is installed
          HostOS,          \* operating system of the machine
          OpinionScores    \* numbers that a second opinion may come with

Systems == {"Windows", "Mac", "Linux"}
Brands == {"nvidia", "amd", "intel", "apple"}

ASSUME RulesAssumption ==
    InstalledMajor \in Nat /\ HostOS \in Systems /\ OpinionScores \subseteq Int

Fingerprint ==
    [os : Systems, platform : Systems, hints : Systems,
     vendor : Brands, renderer : Brands, direct3d : BOOLEAN,
     cores : Nat, threads : Nat, memory : Nat, ram : Nat,
     agent : Nat, brands : Nat, full : Nat, languages : BOOLEAN,
     foreign : BOOLEAN, small : BOOLEAN, native : BOOLEAN, permission : BOOLEAN]

----------------------------------------------------------------------------
(* What a generator may answer with                                        *)

\* sanitize_native_surface_fields drops fonts and plugins.
Sanitized(f) == [f EXCEPT !.native = FALSE]

SchemaPasses(f) ==
    /\ ~f.native /\ f.languages
    /\ f.platform = f.os /\ f.hints = f.os
    /\ f.cores \in 1..32 /\ f.memory \in 1..64
    /\ f.threads = f.cores /\ f.ram = f.memory
    /\ {f.agent, f.brands, f.full} = {InstalledMajor}

\* What an answer says of the model that gave it: nothing, the one that was
\* asked, one whose name begins alike, or another one.
Reports == {"none", "exact", "family", "other"}

\* _finalize_ai_result
IsUsable(f, report) == report # "other" /\ SchemaPasses(Sanitized(f))

Machine(os, brand, render, d3d, cores, memory) ==
    [os |-> os, platform |-> os, hints |-> os,
     vendor |-> brand, renderer |-> render, direct3d |-> d3d,
     cores |-> cores, threads |-> cores, memory |-> memory, ram |-> memory,
     agent |-> InstalledMajor, brands |-> InstalledMajor, full |-> InstalledMajor,
     languages |-> TRUE, foreign |-> FALSE, small |-> FALSE, native |-> FALSE,
     permission |-> TRUE]

\* generate_fingerprint_fallback: every field is drawn on its own.
LocalFingerprints(os) ==
    IF os = "Mac"
    THEN {Machine("Mac", b, b, FALSE, c, m) : b \in {"apple", "intel"},
                                              c \in {8, 10, 12}, m \in {8, 16, 32}}
    ELSE {Machine("Windows", "nvidia", b, TRUE, c, m) : b \in {"nvidia", "amd"},
                                                        c \in {8, 12, 16}, m \in {16, 32}}

----------------------------------------------------------------------------
(* The score of coherence                                                  *)

Rules == {"apple on windows", "nvidia on mac", "direct3d on mac", "cores",
          "locale", "hints", "versions", "full version", "no agent",
          "no brands", "screen", "renderer"}

Penalty ==
    [r \in Rules |-> CASE r \in {"apple on windows", "nvidia on mac", "hints"} -> 50
                       [] r \in {"direct3d on mac", "renderer"} -> 30
                       [] r = "cores" -> 10
                       [] r = "locale" -> 5
                       [] r \in {"versions", "full version"} -> 60
                       [] r \in {"no agent", "no brands"} -> 40
                       [] r = "screen" -> 20]

Broken(f) ==
    {r \in Rules :
        \/ r = "apple on windows" /\ f.os = "Windows" /\ "apple" \in {f.vendor, f.renderer}
        \/ r = "nvidia on mac" /\ f.os = "Mac" /\ "nvidia" \in {f.vendor, f.renderer}
        \/ r = "direct3d on mac" /\ f.os = "Mac" /\ f.vendor = "amd" /\ f.direct3d
        \/ r = "cores" /\ f.cores > 2 * f.memory
        \/ r = "locale" /\ f.foreign
        \/ r = "hints" /\ f.hints # f.os
        \/ r = "no agent" /\ f.agent = 0
        \/ r = "no brands" /\ f.brands = 0
        \/ r = "versions" /\ 0 \notin {f.agent, f.brands} /\ f.agent # f.brands
        \/ r = "full version" /\ f.full # 0
            /\ LET shown == IF f.agent # 0 THEN f.agent ELSE f.brands
               IN  shown # 0 /\ f.full # shown
        \/ r = "screen" /\ f.os = "Mac" /\ f.small
        \/ r = "renderer" /\ f.vendor \in {"nvidia", "amd", "intel"} /\ f.renderer # f.vendor}

\* What the broken rules with one penalty cost together, and all of them.
Cost(f, penalty) == penalty * Cardinality({r \in Broken(f) : Penalty[r] = penalty})
Lost(f) ==
    Cost(f, 5) + Cost(f, 10) + Cost(f, 20) + Cost(f, 30) + Cost(f, 40) + Cost(f, 50) + Cost(f, 60)

Coherence(f) == IF Lost(f) > 100 THEN 0 ELSE 100 - Lost(f)

IsCoherent(f) == Coherence(f) >= 90

----------------------------------------------------------------------------
(* The decision on a registered profile                                    *)

\* What a scan of the profile in a browser may cost: an artifact, a scale or
\* an object that shows, a value that was not replaced; a flag of automation;
\* no browser at all.
ScanScores == {100, 85, 80, 70, 50, 0}

\* A second opinion: a score, whether the verdict is an approving one, and
\* the issues it names: none, only such as speak of a failed analysis, others.
\* The prompt asks for a score out of a hundred; any number is taken as it comes.
Opinions ==
    [score : OpinionScores, approves : BOOLEAN, issues : {"none", "unavailable", "own"}]

\* Without an answer the technical scores stand in for the opinion.
NoOpinion(f, scan) ==
    [score |-> (scan + Coherence(f)) \div 2, approves |-> TRUE, issues |-> "none"]

\* 0.55 of the technical average and 0.45 of the opinion, cut to an integer.
FinalScore(f, scan, opinion) ==
    (55 * (scan + Coherence(f)) + 90 * opinion.score) \div 200

Accepts_WithWarning(f, scan, opinion) == FinalScore(f, scan, opinion) >= 80

\* ACCEPT, or nothing to object but that the analysis was not available.
Accepts(f, scan, opinion) ==
    \/ FinalScore(f, scan, opinion) >= 92 /\ opinion.approves
    \/ scan = 100 /\ Broken(f) = {} /\ f.permission /\ opinion.issues = "unavailable"

----------------------------------------------------------------------------
(* What a launch asks of what was stored                                   *)

\* scan_profile_before_launch, on the machine's numbers.
LooksReal(f) ==
    /\ f.cores <= 2 * f.memory
    /\ ~(f.os = "Mac" /\ f.small)

\* _profile_has_verified_provenance: Approved are the models of the source.
IsApproved(source, model, Approved) ==
    source = "local" \/ (source = "zen" /\ model \in Approved)

LaunchAccepts(f, source, model, Approved) ==
    IsApproved(source, model, Approved) /\ LooksReal(f) /\ IsCoherent(f)
=============================================================================
