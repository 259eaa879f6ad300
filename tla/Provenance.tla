------------------------------ MODULE Provenance ------------------------------
(***************************************************************************)
(* Checksum manifests and OpenPGP signatures in the window.  Two layers    *)
(* share the state: the provenance layer of boot_it_runtime.py, with a     *)
(* signature mode of its own, and over it the layer of                     *)
(* boot_it_auth_runtime.py with a second set of fields.  Each keeps its    *)
(* results until a field they depend on is edited, and both stand before   *)
(* start_write as gates.  The buttons read the manifest file several       *)
(* times, and other programs may rewrite it between two reads.  What an    *)
(* image digest is worth is the matter of module SourceSeal.               *)
(***************************************************************************)
EXTENDS Naturals, Sequences

CONSTANTS
  Images,      \* image paths
  Name,        \* [Images -> file names]
  Bare,        \* the file name of an entry that has none
  Digests,
  Manifests,   \* manifest paths
  Contents,    \* what a manifest file may hold
  Lines,       \* [Contents -> sets of entries], parse_sha256_manifest of the file
  Covered,     \* the same, of what gpg outputs for a cleartext-signed file
  Keys,        \* pairs of a key and a fingerprint, both filled in
  Genuine,     \* [Keys -> SUBSET Contents]: what verifies, {} if the key is another
  None

ASSUME ProvenanceAssumption ==
  /\ None \notin Images \cup Manifests \cup Digests \cup Contents
  /\ \A c \in Contents : /\ \A e \in Lines[c] \cup Covered[c] : e.digest \in Digests
                         /\ Covered[c] \subseteq Lines[c]
  /\ Genuine \in [Keys -> SUBSET Contents]
  /\ {"blank", "partial"} \cap Keys = {}

VARIABLES
  image,     \* image_edit, None when it names no valid image
  digest,    \* _boot_it_image_digest
  manifest,  \* provenance_edit, None when blank
  mode,      \* auth_mode_combo of the provenance layer
  fields,    \* its key, fingerprint and signature fields
  authMode,  \* auth_mode of the OpenPGP layer
  authFields,
  result,    \* _boot_it_provenance_result
  pgp,       \* _boot_it_openpgp_result, which both layers set
  file,      \* [Manifests -> Contents \cup {None}]
  todo,      \* stages left of the button's handler: "check", "sign", "gate"
  at,        \* "idle", the step of the stage, or "dialog": past the gates
  passed,    \* history: what the gate matched, {} when it had no manifest
  calm       \* history: no manifest edited since the button was pressed

form == <<image, manifest, mode, fields, authMode, authFields>>
handler == <<todo, at, passed>>
vars == <<form, digest, result, pgp, file, handler, calm>>

-----------------------------------------------------------------------------
(* The choice of manifest entries: records with file, dir (the entry names   *)
(* a path with a directory), digest and line, one for each line.             *)

LooseCandidates(n, E) ==
  LET named == {e \in E : e.file = n}
  IN IF named # {} THEN named ELSE {e \in E : e.file = Bare}
Candidates(n, E) ==
  LET named == {e \in E : e.file = n}
      exact == {e \in named : ~e.dir}
  IN IF exact # {} THEN exact
     ELSE IF named # {} THEN named
     ELSE {e \in E : e.file = Bare /\ E = {e}}

Status(n, d, E) ==
  LET C == Candidates(n, E)
  IN IF C = {} THEN "not_listed"
     ELSE IF \E e, f \in C : e.digest # f.digest THEN "ambiguous"
     ELSE IF \A e \in C : e.digest = d THEN "verified"
     ELSE "mismatch"

-----------------------------------------------------------------------------
(* Fields.  A signature path, and key plus fingerprint. *)

Fields == [signature : BOOLEAN, who : {"blank", "partial"} \cup Keys]
Blank == [signature |-> FALSE, who |-> "blank"]
Complete(m, f) == f.who \in Keys /\ (m = "detached" => f.signature)
Signed(f, c) == c # None /\ c \in Genuine[f.who]

Idle == at = "idle" /\ UNCHANGED <<file, handler, calm>>

(* clear_verification_state; clear_auth forgets only the second result. *)
ClearChecksum == result' = None /\ UNCHANGED pgp
Clear == result' = None /\ pgp' = None
ClearAuth == pgp' = None /\ UNCHANGED result

(* textChanged of the image: clear_provenance and clear_auth. *)
SetImage(i) ==
  /\ Idle /\ i # image
  /\ image' = i /\ digest' = None
  /\ Clear
  /\ UNCHANGED <<manifest, mode, fields, authMode, authFields>>

SetManifest(m) ==
  /\ Idle /\ m # manifest
  /\ manifest' = m
  /\ Clear
  /\ UNCHANGED <<image, digest, mode, fields, authMode, authFields>>

(* auth_config_changed *)
Configure(m, f) ==
  /\ Idle /\ <<m, f>> # <<mode, fields>>
  /\ mode' = m /\ fields' = f
  /\ Clear
  /\ UNCHANGED <<image, digest, manifest, authMode, authFields>>

(* set_mode_state and clear_auth *)
ConfigureAuth(m, f) ==
  /\ Idle /\ <<m, f>> # <<authMode, authFields>>
  /\ authMode' = m /\ authFields' = f
  /\ ClearAuth
  /\ UNCHANGED <<image, digest, manifest, mode, fields>>

(* apply_profile fills in mode and fingerprint, and leaves the rest alone. *)
ApplyProfile(m) ==
  \E w \in {"partial"} \cup Keys : ConfigureAuth(m, [authFields EXCEPT !.who = w])

(* A hash event for the shown path, between handlers or during a dialog. *)
HashReady(d) ==
  /\ at \in {"idle", "dialog"} /\ image # None
  /\ digest' = d
  /\ UNCHANGED <<form, result, pgp, file, handler, calm>>

EditManifest(m, c) ==
  /\ file' = [file EXCEPT ![m] = c]
  /\ calm' = FALSE
  /\ UNCHANGED <<form, digest, result, pgp, handler>>

-----------------------------------------------------------------------------
(* Buttons.  A handler is a list of stages; an early return drops the rest.  *)

Returns == at' = "idle" /\ UNCHANGED todo
Return == at' = "idle" /\ todo' = << >>
Begin(stages) == at' = "look" /\ todo' = stages

PressVerify ==
  /\ at = "idle"
  /\ Clear /\ Begin(<<"check">>)
  /\ calm' = TRUE
  /\ UNCHANGED <<form, digest, file, passed>>

(* authenticate() begins by checking its fields, then calls verify_manifest. *)
Authenticate(stages) ==
  IF manifest # None /\ Complete(authMode, authFields)
    THEN Clear /\ Begin(stages)
    ELSE ClearAuth /\ Return

PressAuthenticate ==
  /\ at = "idle"
  /\ Authenticate(<<"check", "sign">>)
  /\ calm' = TRUE
  /\ UNCHANGED <<form, digest, file, passed>>

Requested == authFields # Blank

(* start_write of both layers; with partly filled fields it refuses.  With   *)
(* nothing selected only the core's own checks are left.                     *)
PressWrite ==
  /\ at = "idle" /\ image # None
  /\ \/ /\ Requested /\ Complete(authMode, authFields)
        /\ Authenticate(<<"check", "sign", "gate">>)
     \/ /\ ~Requested /\ manifest # None
        /\ Begin(<<"gate">>) /\ UNCHANGED <<result, pgp>>
     \/ /\ ~Requested /\ manifest = None /\ mode = "none"
        /\ at' = "dialog" /\ UNCHANGED <<todo, result, pgp>>
  /\ calm' = TRUE
  /\ UNCHANGED <<form, digest, file, passed>>

AnswerDialog ==
  /\ at = "dialog"
  /\ Return /\ passed' = {}
  /\ UNCHANGED <<form, digest, result, pgp, file, calm>>

-----------------------------------------------------------------------------
(* verify_selected_manifest, in the stages "check" and "gate" *)

(* An exception: it ends the handler, and in authenticate() also clears the  *)
(* OpenPGP result, which may have been set to g before.                      *)
Fails(g) ==
  /\ Return
  /\ pgp' = IF Head(todo) = "check" /\ Len(todo) > 1 THEN None ELSE g
  /\ UNCHANGED <<result, passed>>

Step(s) == at' = s /\ UNCHANGED <<todo, result, pgp, passed>>

(* Before the first read: fields, digest, and the image on disk, which may   *)
(* have gone or changed since it was hashed.                                 *)
LookCached ==
  /\ at = "look"
  /\ IF result # None /\ result.status = "verified"
       THEN at' = "dialog" /\ todo' = << >> /\ passed' = {result.of} /\ UNCHANGED <<result, pgp>>
       ELSE \/ Fails(pgp)
            \/ /\ image # None /\ manifest # None /\ digest # None
               /\ mode # "none" => Complete(mode, fields)
               /\ Step(IF mode = "none" THEN "read" ELSE "signature")
  /\ UNCHANGED <<form, digest, file, calm>>
Look ==
  /\ at = "look"
  /\ \/ Fails(pgp)
     \/ /\ image # None /\ manifest # None /\ digest # None
        /\ mode # "none" => Complete(mode, fields)
        /\ Step(IF mode = "none" THEN "read" ELSE "signature")
  /\ UNCHANGED <<form, digest, file, calm>>

(* What the stage makes of a result: verify_manifest shows it, authenticate() *)
(* wants a match before it looks at a signature, and so does the gate.        *)
Shown(g) ==
  /\ todo = <<"check">>
  /\ Return /\ pgp' = g /\ UNCHANGED passed
Wanted(good, g) ==
  /\ Head(todo) = "check" /\ Len(todo) > 1
  /\ IF good THEN at' = "sign" /\ todo' = Tail(todo) /\ pgp' = g ELSE Return /\ pgp' = None
  /\ UNCHANGED passed
Gated(good, match, g) ==
  /\ todo = <<"gate">>
  /\ IF good THEN at' = "dialog" /\ passed' = {match} ELSE at' = "idle" /\ UNCHANGED passed
  /\ todo' = << >> /\ pgp' = g

(* render_result: c with its entries E has been read, the OpenPGP result is g. *)
Match(c, E, g) ==
  LET status == Status(Name[image], digest, E)
      match == [content |-> c, lines |-> E, digest |-> digest]
  IN IF E = {} THEN Fails(g)
     ELSE /\ result' = [status |-> status, of |-> match, image |-> image,
                        manifest |-> manifest, with |-> <<mode, fields>>]
          /\ \/ Shown(g)
             \/ Wanted(status = "verified", g)
             \/ Gated(status = "verified", match, g)

Read ==
  /\ at = "read"
  /\ IF file[manifest] = None THEN Fails(pgp)
     ELSE Match(file[manifest], Lines[file[manifest]], pgp)
  /\ UNCHANGED <<form, digest, file, calm>>

Verified(layer, m, f, E) ==
  [layer |-> layer, with |-> <<m, f>>, image |-> image, manifest |-> manifest, lines |-> E]

(* gpg reads the file; a cleartext-signed one is taken from gpg's output. *)
SignatureOnly(f, c) == c # None
SignatureHolds(f, c) == Signed(f, c)

CheckSignature ==
  /\ at = "signature"
  /\ LET c == file[manifest]
     IN IF ~SignatureHolds(fields, c) THEN Fails(pgp)
        ELSE IF mode = "detached" THEN Step("text")
        ELSE Match(c, Covered[c], Verified(1, mode, fields, Covered[c]))
  /\ UNCHANGED <<form, digest, file, calm>>

(* A detached signature verified, the manifest is read again for its text. *)
ReadText ==
  /\ at = "text"
  /\ LET c == file[manifest]
     IN IF c = None THEN Fails(pgp)
        ELSE Match(c, Lines[c], Verified(1, mode, fields, Lines[c]))
  /\ UNCHANGED <<form, digest, file, calm>>

-----------------------------------------------------------------------------
(* The signature stage of authenticate() *)

Sign(E) ==
  /\ pgp' = Verified(2, authMode, authFields, E)
  /\ IF Len(todo) = 1 THEN Return ELSE at' = "look" /\ todo' = Tail(todo)
Refuse == pgp' = None /\ Return

CheckAuth ==
  /\ at = "sign"
  /\ LET c == file[manifest]
     IN IF ~SignatureHolds(authFields, c) THEN Refuse
        ELSE IF authMode = "detached" THEN at' = "authText" /\ UNCHANGED <<todo, pgp>>
        ELSE Sign(Covered[c])
  /\ UNCHANGED <<form, digest, result, file, passed, calm>>

ReadAuthText ==
  /\ at = "authText"
  /\ IF file[manifest] = None THEN Refuse ELSE Sign(Lines[file[manifest]])
  /\ UNCHANGED <<form, digest, result, file, passed, calm>>

-----------------------------------------------------------------------------
Init ==
  /\ image = None /\ digest = None /\ manifest = None
  /\ mode = "none" /\ fields = Blank /\ authMode = "detached" /\ authFields = Blank
  /\ result = None /\ pgp = None
  /\ file \in [Manifests -> Contents \cup {None}]
  /\ todo = << >> /\ at = "idle" /\ passed = {} /\ calm = TRUE

Edit ==
  \/ \E i \in Images \cup {None} : SetImage(i)
  \/ \E m \in Manifests \cup {None} : SetManifest(m)
  \/ \E m \in {"none", "detached", "cleartext"}, f \in Fields : Configure(m, f)
  \/ \E m \in {"detached", "cleartext"}, f \in Fields : ConfigureAuth(m, f)
  \/ \E m \in {"detached", "cleartext"} : ApplyProfile(m)

Environment ==
  \/ \E d \in Digests \cup {None} : HashReady(d)
  \/ \E m \in Manifests, c \in Contents \cup {None} : EditManifest(m, c)

Next ==
  \/ Edit \/ Environment
  \/ PressVerify \/ PressAuthenticate \/ PressWrite \/ AnswerDialog
  \/ Look \/ Read \/ CheckSignature \/ ReadText \/ CheckAuth \/ ReadAuthText

Spec == Init /\ [][Next]_vars

-----------------------------------------------------------------------------
(* Properties *)

Steps == {"look", "read", "signature", "text", "sign", "authText"}

(* Types of the form, the results and the handler: stages are left exactly   *)
(* while a handler runs, and only a handler that is past the gates has       *)
(* something to show for it.                                                 *)
TypeOK ==
  /\ image \in Images \cup {None} /\ digest \in Digests \cup {None}
  /\ manifest \in Manifests \cup {None}
  /\ mode \in {"none", "detached", "cleartext"} /\ authMode \in {"detached", "cleartext"}
  /\ fields \in Fields /\ authFields \in Fields
  /\ file \in [Manifests -> Contents \cup {None}]
  /\ at \in {"idle", "dialog"} \cup Steps
  /\ todo \in {<< >>, <<"check">>, <<"sign">>, <<"gate">>, <<"check", "sign">>,
               <<"sign", "gate">>, <<"check", "sign", "gate">>}
  /\ todo # << >> <=> at \in Steps
  /\ passed # {} => at = "dialog"

(* Twelve connections of ten fields, in two layers, clear one or both of the *)
(* results.  What is kept after an edit was established with the      *)
(* fields as they are now.                                                   *)
ResultsAreCurrent ==
  /\ result # None =>
       result.image = image /\ result.manifest = manifest /\ result.with = <<mode, fields>>
  /\ pgp # None =>
       /\ pgp.image = image /\ pgp.manifest = manifest
       /\ pgp.with = IF pgp.layer = 1 THEN <<mode, fields>> ELSE <<authMode, authFields>>

(* docs/CHECKSUM_PROVENANCE.md: with a manifest selected, a write that       *)
(* reaches the confirmation has an entry bound to the image's name, or the   *)
(* only one, for its digest; no entry of exactly that name, or, when there   *)
(* is none, of that name in a directory, says otherwise; and the manifest    *)
(* was read for it, not for an earlier result.                               *)
Lists(n, d, E) ==
  /\ \E e \in E : e.digest = d /\ (e.file = n \/ (e.file = Bare /\ E = {e}))
  /\ \A e \in E : e.file = n /\ e.digest # d =>
       e.dir /\ \E f \in E : f.file = n /\ ~f.dir
GateMatches ==
  at = "dialog" /\ manifest # None =>
    \E p \in passed : /\ Lists(Name[image], p.digest, p.lines)
                      /\ calm => p.content = file[manifest]

(* A write with a signature asked for in either layer reaches the            *)
(* confirmation only with complete fields and a manifest that carries a      *)
(* signature for each, if the file was left alone meanwhile; and a cleartext *)
(* signature of the provenance layer binds what was matched regardless.      *)
GateIsSigned ==
  at = "dialog" =>
    /\ Requested =>
         manifest # None /\ Complete(authMode, authFields)
         /\ (calm => \A p \in passed : Signed(authFields, p.content))
    /\ mode # "none" =>
         manifest # None /\ Complete(mode, fields)
         /\ (calm \/ mode = "cleartext" => \A p \in passed : Signed(fields, p.content))
    /\ mode = "cleartext" => \A p \in passed : p.lines = Covered[p.content]

-----------------------------------------------------------------------------
(* The inductive invariant behind these: see ProvenanceProofs.               *)

(* What the steps of verify_selected_manifest rest on. *)
StepInv ==
  /\ at \in Steps \ {"look"} => image # None /\ manifest # None
  /\ at = "read" => mode = "none" /\ digest # None
  /\ at \in {"signature", "text"} => mode # "none" /\ Complete(mode, fields) /\ digest # None
  /\ at = "text" => mode = "detached" /\ (calm => Signed(fields, file[manifest]))

(* The stages of a handler, and what authenticate() has established once its *)
(* own stage is over and only the gate is left.                              *)
StageInv ==
  /\ at \in {"look", "read", "signature", "text"} =>
       todo \in {<<"check">>, <<"check", "sign">>, <<"check", "sign", "gate">>, <<"gate">>}
  /\ at \in {"sign", "authText"} => todo \in {<<"sign">>, <<"sign", "gate">>}
  /\ todo \notin {<< >>, <<"check">>, <<"gate">>} =>
       manifest # None /\ Complete(authMode, authFields)
  /\ at = "authText" /\ calm => Signed(authFields, file[manifest])
  /\ todo = <<"gate">> /\ Requested =>
       /\ manifest # None /\ Complete(authMode, authFields)
       /\ calm => Signed(authFields, file[manifest])

IInv == TypeOK /\ StepInv /\ StageInv /\ ResultsAreCurrent /\ GateMatches /\ GateIsSigned

=============================================================================
