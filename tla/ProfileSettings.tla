--------------------------- MODULE ProfileSettings ---------------------------
(***************************************************************************)
(* The privacy settings of a profile, from whatever writes them (creation, *)
(* clone, JSON and CSV import, restore, the edit dialog and the PATCH      *)
(* endpoints) to the command line of its browser, and what is left of its  *)
(* data when it closes.  One profile is followed; a call that makes        *)
(* another profile from it may be followed to the copy.                    *)
(***************************************************************************)
EXTENDS Naturals, Sequences, FiniteSetsExt

Modes == {"standard", "strict", "ephemeral", "high"}
Hardened == {"strict", "ephemeral", "high"}

\* The dictionary `advanced`.  "unset" is a key that is not there, "other" any
\* word that nothing knows.  The keys of the device (os, cpu_cores, ...) have
\* no part in what follows.
Advanced == [mode : Modes \cup {"unset", "other"},
             webrtc : {"unset", "protected", "altered", "disabled", "real"},
             workers : {"unset", "on", "off"}] \* block_service_workers

Nothing == [mode |-> "unset", webrtc |-> "unset", workers |-> "unset"]

VARIABLES
    proxyRequired, \* GHOSTBROWSER_REQUIRE_PROXY is on
    advanced,      \* the settings of the profile, or None
    proxied,       \* it has a proxy
    verified,      \* what the launch gate reads
    browser,       \* how its browser was launched, or NoBrowser
    data,          \* its directory has data of a session
    asked,         \* history: the mode that a call asked for last
    reset,         \* history: an edit has left the mode to the defaults
    patched        \* history: a PATCH or PUT wrote what nobody validates

identity == <<proxyRequired, proxied, verified>>
session == <<browser, data>>
settingsVars == <<advanced, identity, session, asked, reset, patched>>

NoSettings == [mode |-> "no profile"]
NoBrowser == [mode |-> "no browser"]
Exists == advanced # NoSettings

----------------------------------------------------------------------------
(* Reading and writing the dictionary                                      *)

Update_Replaces(old, new) == new

\* dict.update
Update(old, new) == [f \in DOMAIN old |-> IF new[f] = "unset" THEN old[f] ELSE new[f]]

Normalized_Hardened(a) ==
    LET mode == IF a.mode = "unset" THEN IF proxyRequired THEN "high" ELSE "standard"
                ELSE IF a.mode \in Modes THEN a.mode ELSE "standard"
    IN  [a EXCEPT !.mode = mode,
                  !.webrtc = IF mode \in Hardened THEN "disabled" ELSE @,
                  !.workers = IF mode \in Hardened THEN "on" ELSE @]

\* _normalize_privacy_advanced
Normalized(a) ==
    LET mode == IF a.mode = "unset" THEN IF proxyRequired THEN "high" ELSE "standard"
                ELSE IF a.mode \in Modes THEN a.mode ELSE "standard"
    IN  [a EXCEPT !.mode = mode,
                  !.webrtc = IF mode = "high" THEN "disabled" ELSE @,
                  !.workers = IF mode = "high" THEN "on" ELSE @]

Reading(mode) == IF mode \in Modes THEN mode ELSE "standard"

\* _validate_inputs: what it refuses, and what it makes of the rest.
IsValid(a) ==
    /\ a.mode \in Modes \cup {"unset"}
    /\ a.webrtc \in {"unset", "protected", "altered"}

Validated(a) == [a EXCEPT !.webrtc = IF @ = "unset" THEN @ ELSE "protected"]

\* create_zero_leak_profile takes these keys of the request, the rest from the
\* fingerprint.
Created(ui) == Normalized([Nothing EXCEPT !.mode = ui.mode, !.webrtc = ui.webrtc])

\* AdvancedSettingsModel: what the request leaves out has a default.
WithDefaults(a) ==
    [mode |-> IF a.mode = "unset" THEN "standard" ELSE a.mode,
     webrtc |-> IF a.webrtc = "unset" THEN "altered" ELSE a.webrtc,
     workers |-> IF a.workers = "unset" THEN "off" ELSE a.workers]

----------------------------------------------------------------------------
(* The launch                                                              *)

\* build_browser_launch_config: normalize_webrtc_mode refuses the rest.
IsLaunchable(a) ==
    \/ a.webrtc \in {"unset", "protected", "altered"}
    \/ a.mode = "high" /\ a.webrtc = "disabled"

\* Switches that say something here, in order; the value of a switch is a set.
Initial == <<[switch |-> "blink", value |-> {"AutomationControlled"}],
             [switch |-> "features", value |-> {"MediaRouter"}]>>

Adds(args, switch, value) == Append(args, [switch |-> switch, value |-> value])

AddsUnique(args, switch, value) ==
    IF \E i \in DOMAIN args : args[i].switch = switch THEN args ELSE Adds(args, switch, value)

Widens_Replaces(args, switch, more) ==
    LET found == {i \in DOMAIN args : args[i].switch = switch}
    IN  IF found = {} THEN Adds(args, switch, more)
        ELSE [args EXCEPT ![Min(found)].value = more]

\* To the value of the first switch of that name.
Widens(args, switch, more) ==
    LET found == {i \in DOMAIN args : args[i].switch = switch}
    IN  IF found = {} THEN Adds(args, switch, more)
        ELSE [args EXCEPT ![Min(found)].value = @ \cup more]

\* get_privacy_launch_flags: the features go into the switch that is there.
WithPrivacyFlags(args, mode) ==
    IF mode # "high" THEN args
    ELSE Adds(Widens(args, "features", {"ThirdPartyCookies", "WebGPU", "ServiceWorker"}),
              "blink", {"BatteryStatus"})

WithExtensions(args, mode, paths) ==
    IF mode \in Hardened THEN Adds(args, "disable-extensions", {})
    ELSE IF paths = {} THEN args ELSE Adds(args, "load-extension", paths)

\* The resolver of a test environment, then that of a proxied profile.
WithNetwork(args, hasProxy, test) ==
    LET policy == Adds(args, "webrtc-policy", {"proxied udp only"})
        mapped == IF test THEN Adds(policy, "resolver", {"test host"}) ELSE policy
    IN  IF hasProxy THEN Adds(mapped, "resolver", {"proxy host only"}) ELSE mapped

WithoutWorkers(args, mode) ==
    IF mode \in Hardened THEN Widens(args, "features", {"ServiceWorker"}) ELSE args

\* What the environment of the process says.
Environments == [production : BOOLEAN, cdp : BOOLEAN, test : BOOLEAN]

\* _cdp_test_mode_enabled, asked when the arguments are built, when the port is
\* read, and whenever a client wants to know it.
Debuggable(env) == ~env.production /\ env.cdp /\ env.test

WithDebugging(args, env) ==
    IF Debuggable(env) THEN AddsUnique(args, "debugging", {"loopback"}) ELSE args

Args(mode, hasProxy, paths, env) ==
    LET flagged == WithPrivacyFlags(Initial, mode)
        online == WithNetwork(WithExtensions(flagged, mode, paths), hasProxy, env.test)
        blind == AddsUnique(online, "blink", {"AutomationControlled"})
    IN  WithDebugging(WithoutWorkers(blind, mode), env)

\* build_surface_launch_policy
BlocksWorkers(a, hasProxy) ==
    \/ IF a.workers = "unset" THEN hasProxy ELSE a.workers = "on"
    \/ a.mode \in Hardened

\* Chromium keeps the last of the switches of one name.
Effective(args, switch) ==
    LET found == {i \in DOMAIN args : args[i].switch = switch}
    IN  IF found = {} THEN {} ELSE args[Max(found)].value

----------------------------------------------------------------------------
(* The calls                                                               *)

SettingsInit ==
    /\ proxyRequired \in BOOLEAN
    /\ advanced = NoSettings /\ browser = NoBrowser
    /\ proxied = FALSE /\ verified = FALSE /\ data = FALSE
    /\ asked = "unset" /\ reset = FALSE /\ patched = FALSE

\* The endpoint that creates fills in the defaults, the JSON import does not.
Creates(ui, hasProxy, throughModel) ==
    /\ ~Exists
    /\ proxyRequired => hasProxy
    /\ LET request == IF throughModel THEN WithDefaults(ui) ELSE ui
       IN  /\ IsValid(request)
           /\ advanced' = Created(Validated(request))
           /\ asked' = IF ui.mode = "unset" THEN advanced'.mode ELSE ui.mode
    /\ proxied' = hasProxy /\ verified' = TRUE
    /\ UNCHANGED <<proxyRequired, session, reset, patched>>

\* clone_profile, or the JSON import of an export, followed to the copy, or to
\* the original, whose dictionary the validation of a clone has written to.
Clones(followsCopy) ==
    /\ Exists /\ IsValid(advanced)
    /\ proxyRequired => proxied
    /\ advanced' = IF followsCopy THEN Created(Validated(advanced)) ELSE Validated(advanced)
    /\ verified' = (followsCopy \/ verified)
    /\ asked' = IF followsCopy /\ advanced.mode = "unset" THEN "unset" ELSE asked
    /\ patched' = (patched /\ ~followsCopy)
    /\ browser' = IF followsCopy THEN NoBrowser ELSE browser
    /\ data' = (data /\ ~followsCopy)
    /\ UNCHANGED <<proxyRequired, proxied, reset>>

\* _import_single, of an export or of a row of a CSV file: nothing is normalized.
Imports(a, hasProxy) ==
    /\ ~Exists
    /\ a.webrtc \in {"unset", "protected", "altered"}
    /\ advanced' = [a EXCEPT !.webrtc = "protected"]
    /\ proxied' = hasProxy /\ verified' = FALSE
    /\ asked' = IF a.mode = "unset" THEN "unset" ELSE Reading(a.mode)
    /\ UNCHANGED <<proxyRequired, session, reset, patched>>

\* import_profile of cloud_sync: register_profile, then update_profile.
Restores ==
    /\ Exists /\ browser = NoBrowser
    /\ advanced' = Normalized(Update(Normalized(advanced), advanced))
    /\ UNCHANGED <<identity, session, asked, reset, patched>>

\* update_profile with a dictionary `advanced`.
Writes(a) ==
    /\ Exists
    /\ advanced' = Normalized(Update(advanced, a))

PatchesMode(mode) ==
    /\ Writes([Nothing EXCEPT !.mode = mode])
    /\ asked' = mode /\ reset' = FALSE
    /\ patched' = (patched \/ (advanced.mode = "high" /\ mode # "high"))
    /\ UNCHANGED <<identity, session>>

\* PATCH .../fingerprint takes any dictionary.
PatchesAnything(a) ==
    /\ Writes(a)
    /\ asked' = IF a.mode = "unset" THEN asked ELSE Reading(a.mode)
    /\ reset' = (reset /\ a.mode = "unset")
    /\ patched' = TRUE
    /\ UNCHANGED <<identity, session>>

\* PUT: edit_profile dumps the whole model, defaults included.
Edits(a) ==
    /\ Writes(WithDefaults(a))
    /\ asked' = IF a.mode = "unset" THEN asked ELSE Reading(a.mode)
    /\ reset' = (a.mode = "unset")
    /\ patched' = TRUE
    /\ UNCHANGED <<identity, session>>

\* The dialog (frontend/app.js) names the WebRTC mode and nothing else of these.
DialogEdits == Edits([Nothing EXCEPT !.webrtc = "protected"])

\* update_profile_proxy, once the proxy was found healthy, and PUT with a proxy.
PatchesProxy(hasProxy) ==
    /\ Exists
    /\ proxied' = hasProxy
    /\ UNCHANGED <<proxyRequired, advanced, verified, session, asked, reset, patched>>

Launches(paths, env) ==
    /\ Exists /\ verified /\ browser = NoBrowser
    /\ IsLaunchable(advanced)
    /\ LET mode == Reading(advanced.mode)
           read == [advanced EXCEPT !.mode = mode]
       IN  /\ advanced' = read
           /\ browser' = [mode |-> mode, proxied |-> proxied,
                          workers |-> ~BlocksWorkers(read, proxied),
                          args |-> Args(mode, proxied, paths, env), env |-> env]
    /\ data' = TRUE
    /\ UNCHANGED <<identity, asked, reset, patched>>

\* The browser is closed by a call, which clears an ephemeral profile.
Closes ==
    /\ browser # NoBrowser
    /\ browser' = NoBrowser
    /\ data' = (data /\ advanced.mode # "ephemeral")
    /\ UNCHANGED <<advanced, identity, asked, reset, patched>>

\* The last window is closed, or the browser dies: _on_context_close.
WindowCloses ==
    /\ browser # NoBrowser
    /\ browser' = NoBrowser
    /\ UNCHANGED <<advanced, identity, data, asked, reset, patched>>

SettingsNext ==
    \/ \E a \in Advanced, hasProxy \in BOOLEAN :
          \/ \E throughModel \in BOOLEAN : Creates(a, hasProxy, throughModel)
          \/ Imports(a, hasProxy)
    \/ \E followsCopy \in BOOLEAN : Clones(followsCopy)
    \/ Restores
    \/ \E mode \in Modes : PatchesMode(mode)
    \/ \E a \in Advanced : PatchesAnything(a) \/ Edits(a)
    \/ DialogEdits
    \/ \E hasProxy \in BOOLEAN : PatchesProxy(hasProxy)
    \/ \E paths \in SUBSET {"extension"}, env \in Environments : Launches(paths, env)
    \/ Closes \/ WindowCloses

SettingsSpec == SettingsInit /\ [][SettingsNext]_settingsVars

SettingsTypeOK ==
    /\ {proxyRequired, proxied, verified, data, reset, patched} \subseteq BOOLEAN
    /\ advanced \in Advanced \cup {NoSettings}
    /\ asked \in Modes \cup {"unset"}

----------------------------------------------------------------------------

(* The mode of a profile is the last one that a call asked for, through    *)
(* clones, restores, partial writes and launches; an edit that leaves it   *)
(* to the defaults is left out (see EditKeepsMode).                        *)
ModeIsAsAsked ==
    (Exists /\ asked # "unset" /\ ~reset) => Reading(advanced.mode) = asked

(* What creation, clone, import or restore accept, a launch accepts, until *)
(* a PATCH or PUT writes what nobody validates: the three places that read *)
(* webrtc_mode agree, although the high mode stores a word that two of     *)
(* them refuse.                                                            *)
AcceptedIsLaunchable == (Exists /\ ~patched) => IsLaunchable(advanced)

(* The command line does what the mode promises, although Chromium keeps   *)
(* one switch of each name and five places add some: a hardened profile    *)
(* has no extensions and no service workers, a high one no third-party     *)
(* cookies, a proxied one resolves nothing but the host of its proxy, and  *)
(* a debugging port is open in tests only ("must NEVER run in production", *)
(* browser_manager.py:770).                                                *)
CommandLineKeepsPromises ==
    browser # NoBrowser =>
        LET args == browser.args
        IN  /\ browser.mode \in Hardened =>
                  /\ Effective(args, "load-extension") = {}
                  /\ "ServiceWorker" \in Effective(args, "features") /\ ~browser.workers
            /\ browser.mode = "high" =>
                  {"ThirdPartyCookies", "WebGPU"} \subseteq Effective(args, "features")
            /\ browser.proxied => Effective(args, "resolver") = {"proxy host only"}
            /\ Effective(args, "debugging") # {} => browser.env.test /\ ~browser.env.production

(* An edit does not touch the mode unless it names one: "Remove None       *)
(* values so we don't accidentally wipe out stuff" (edit_profile).         *)
EditKeepsMode == (Exists /\ asked # "unset") => Reading(advanced.mode) = asked

(* When the browser of an ephemeral profile is gone, so is its data:       *)
(* "nothing persists locally after close" (docs/USAGE.md).                 *)
EphemeralLeavesNothing ==
    [][(browser # NoBrowser /\ browser.mode = "ephemeral" /\ browser' = NoBrowser
        /\ advanced'.mode = "ephemeral") => ~data']_settingsVars
=============================================================================
