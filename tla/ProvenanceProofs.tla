--------------------------- MODULE ProvenanceProofs ---------------------------
(***************************************************************************)
(* Proofs about Provenance, for any images, manifests, contents and keys.  *)
(* The handler of a button is a sequence of steps between which only the   *)
(* manifest files change; IInv says what each step rests on.               *)
(***************************************************************************)
EXTENDS Provenance, TLAPS

(* For every name, digest and manifest, the cascade of _candidate_entries    *)
(* and the comparison in _verify_entries accept exactly what Lists says: an  *)
(* entry for the image, and none of the same or a more exact name against it.*)
THEOREM VerifiedMeansListed ==
  ASSUME NEW n, NEW d, NEW E
  PROVE  Status(n, d, E) = "verified" <=> Lists(n, d, E)
<1> DEFINE named == {e \in E : e.file = n}
           exact == {e \in named : ~e.dir}
           bare == {e \in E : e.file = Bare /\ E = {e}}
           C == Candidates(n, E)
<1>1. C = IF exact # {} THEN exact ELSE IF named # {} THEN named ELSE bare
  BY DEF Candidates
<1>2. Status(n, d, E) = "verified" <=> C # {} /\ \A e \in C : e.digest = d
  <2> HIDE DEF C
  <2>1. CASE C = {}
    BY <2>1 DEF Status, C
  <2>2. CASE C # {} /\ \E e, f \in C : e.digest # f.digest
    BY <2>2 DEF Status, C
  <2>3. CASE C # {} /\ \A e, f \in C : e.digest = f.digest
    BY <2>3 DEF Status, C
  <2> QED BY <2>1, <2>2, <2>3
<1>3. CASE exact # {}
  <2>1. C = exact
    BY <1>1, <1>3
  <2>2. ASSUME \A e \in exact : e.digest = d PROVE Lists(n, d, E)
    BY <2>2, <1>3 DEF Lists
  <2>3. ASSUME Lists(n, d, E) PROVE \A e \in exact : e.digest = d
    BY <2>3 DEF Lists
  <2> QED BY <1>2, <1>3, <2>1, <2>2, <2>3
<1>4. CASE exact = {} /\ named # {}
  <2>1. C = named
    BY <1>1, <1>4
  <2>2. ASSUME \A e \in named : e.digest = d PROVE Lists(n, d, E)
    BY <2>2, <1>4 DEF Lists
  <2>3. ASSUME Lists(n, d, E) PROVE \A e \in named : e.digest = d
    BY <2>3, <1>4 DEF Lists
  <2> QED BY <1>2, <1>4, <2>1, <2>2, <2>3
<1>5. CASE named = {}
  <2>1. C = bare /\ exact = {}
    BY <1>1, <1>5
  <2>2. ASSUME bare # {}, \A e \in bare : e.digest = d PROVE Lists(n, d, E)
    BY <2>2, <1>5 DEF Lists
  <2>3. ASSUME Lists(n, d, E) PROVE bare # {} /\ \A e \in bare : e.digest = d
    BY <2>3, <1>5 DEF Lists
  <2> QED BY <1>2, <2>1, <2>2, <2>3
<1> QED BY <1>3, <1>4, <1>5

-----------------------------------------------------------------------------
(* The invariant holds initially. *)
LEMMA InvInit == Init => IInv
<1> SUFFICES ASSUME Init PROVE IInv
  OBVIOUS
<1>1. Blank \in Fields
  BY DEF Blank, Fields
<1>2. TypeOK
  BY <1>1 DEF Init, TypeOK, Steps
<1>3. StepInv /\ StageInv
  BY DEF Init, StepInv, StageInv, Steps
<1>4. ResultsAreCurrent /\ GateMatches /\ GateIsSigned
  BY DEF Init, ResultsAreCurrent, GateMatches, GateIsSigned
<1> QED BY <1>2, <1>3, <1>4 DEF IInv

(* What an edit of a field may do: it comes between handlers, and takes the  *)
(* results with it that depend on the field.                                 *)
LEMMA EditSteps ==
  ASSUME TypeOK, ResultsAreCurrent, Edit
  PROVE  /\ at = "idle" /\ UNCHANGED <<file, handler, calm>>
         /\ TypeOK' /\ ResultsAreCurrent'
<1> USE DEF Idle, TypeOK, Steps, ResultsAreCurrent, handler
<1>1. ASSUME NEW i \in Images \cup {None}, SetImage(i)
      PROVE  at = "idle" /\ UNCHANGED <<file, handler, calm>> /\ TypeOK' /\ ResultsAreCurrent'
  BY <1>1 DEF SetImage, Clear
<1>2. ASSUME NEW m \in Manifests \cup {None}, SetManifest(m)
      PROVE  at = "idle" /\ UNCHANGED <<file, handler, calm>> /\ TypeOK' /\ ResultsAreCurrent'
  BY <1>2 DEF SetManifest, Clear
<1>3. ASSUME NEW m \in {"none", "detached", "cleartext"}, NEW f \in Fields, Configure(m, f)
      PROVE  at = "idle" /\ UNCHANGED <<file, handler, calm>> /\ TypeOK' /\ ResultsAreCurrent'
  BY <1>3 DEF Configure, Clear
<1>4. ASSUME NEW m \in {"detached", "cleartext"}, NEW f \in Fields, ConfigureAuth(m, f)
      PROVE  at = "idle" /\ UNCHANGED <<file, handler, calm>> /\ TypeOK' /\ ResultsAreCurrent'
  BY <1>4 DEF ConfigureAuth, ClearAuth
<1>5. ASSUME NEW m \in {"detached", "cleartext"}, ApplyProfile(m)
      PROVE  at = "idle" /\ UNCHANGED <<file, handler, calm>> /\ TypeOK' /\ ResultsAreCurrent'
  <2>1. PICK w \in {"partial"} \cup Keys : ConfigureAuth(m, [authFields EXCEPT !.who = w])
    BY <1>5 DEF ApplyProfile
  <2>2. [authFields EXCEPT !.who = w] \in Fields
    BY DEF Fields
  <2> QED BY <1>4, <2>1, <2>2
<1> QED BY <1>1, <1>2, <1>3, <1>4, <1>5 DEF Edit

(* A handler that is over rests on nothing. *)
LEMMA IdleAfter ==
  ASSUME TypeOK', at' = "idle"
  PROVE  (StepInv /\ StageInv /\ GateMatches /\ GateIsSigned)'
<1>1. todo' = << >>
  BY DEF TypeOK, Steps
<1> QED BY <1>1 DEF StepInv, StageInv, GateMatches, GateIsSigned, Steps

-----------------------------------------------------------------------------
(* How a step of verify_selected_manifest can end. *)
Ended == at' = "idle" /\ todo' = << >> /\ UNCHANGED passed
ToSign ==
  /\ at' = "sign" /\ UNCHANGED passed
  /\ \/ todo = <<"check", "sign">> /\ todo' = <<"sign">>
     \/ todo = <<"check", "sign", "gate">> /\ todo' = <<"sign", "gate">>
ToDialog(c, E) ==
  /\ at' = "dialog" /\ todo = <<"gate">> /\ todo' = << >>
  /\ passed' = {[content |-> c, lines |-> E, digest |-> digest]}
  /\ Lists(Name[image], digest, E)
Results(g) ==
  /\ \/ UNCHANGED result
     \/ result'.image = image /\ result'.manifest = manifest /\ result'.with = <<mode, fields>>
  /\ pgp' \in {g, None}

LEMMA FailSteps ==
  ASSUME NEW g, Fails(g)
  PROVE  Ended /\ Results(g)
BY DEF Fails, Return, Ended, Results

(* An entry set that is not empty gives a result, and what happens next is   *)
(* decided by it and by the stage.                                           *)
LEMMA MatchSteps ==
  ASSUME StageInv, at \in {"read", "signature", "text"}, NEW c, NEW E, NEW g, Match(c, E, g)
  PROVE  Results(g) /\ (Ended \/ ToSign \/ ToDialog(c, E))
<1> DEFINE status == Status(Name[image], digest, E)
           match == [content |-> c, lines |-> E, digest |-> digest]
<1>1. CASE E = {}
  BY <1>1, FailSteps DEF Match
<1>2. CASE E # {}
  <2>1. /\ result' = [status |-> status, of |-> match, image |-> image,
                      manifest |-> manifest, with |-> <<mode, fields>>]
        /\ \/ Shown(g)
           \/ Wanted(status = "verified", g)
           \/ Gated(status = "verified", match, g)
    BY <1>2 DEF Match
  <2>2. result'.image = image /\ result'.manifest = manifest /\ result'.with = <<mode, fields>>
    BY <2>1
  <2>3. CASE Shown(g)
    BY <2>2, <2>3 DEF Shown, Return, Results, Ended
  <2>4. CASE Wanted(status = "verified", g)
    <3>1. todo \in {<<"check", "sign">>, <<"check", "sign", "gate">>}
      BY <2>4 DEF Wanted, StageInv
    <3>2. Tail(<<"check", "sign">>) = <<"sign">> /\ Tail(<<"check", "sign", "gate">>) = <<"sign", "gate">>
      OBVIOUS
    <3> HIDE DEF status
    <3> QED BY <2>2, <2>4, <3>1, <3>2 DEF Wanted, Return, Results, Ended, ToSign
  <2>5. CASE Gated(status = "verified", match, g)
    <3>1. status = "verified" <=> Lists(Name[image], digest, E)
      BY VerifiedMeansListed
    <3> HIDE DEF status
    <3> QED BY <2>2, <2>5, <3>1 DEF Gated, Results, Ended, ToDialog
  <2> QED BY <2>1, <2>3, <2>4, <2>5
<1> QED BY <1>1, <1>2

(* The results of such a step belong to the fields, if g does. *)
LEMMA ResultsStay ==
  ASSUME ResultsAreCurrent, NEW g, Results(g), UNCHANGED form,
         \/ g = pgp
         \/ /\ g.image = image /\ g.manifest = manifest
            /\ g.layer = 1 /\ g.with = <<mode, fields>>
  PROVE  ResultsAreCurrent'
BY DEF ResultsAreCurrent, Results, form

(* Any end of a match keeps the invariant: c is what the manifest holds, and *)
(* carries the signature that this layer wants.                              *)
LEMMA MatchKeeps ==
  ASSUME IInv, at \in {"read", "signature", "text"}, NEW c, NEW E, NEW g,
         Results(g), Ended \/ ToSign \/ ToDialog(c, E),
         UNCHANGED <<form, digest, file, calm>>,
         ResultsAreCurrent',
         c = file[manifest],
         mode # "none" => Complete(mode, fields),
         mode # "none" /\ (calm \/ mode = "cleartext") => Signed(fields, c),
         mode = "cleartext" => E = Covered[c]
  PROVE  IInv'
<1>a. TypeOK /\ StepInv /\ StageInv
  BY DEF IInv
<1>1. CASE Ended
  <2>1. TypeOK'
    BY <1>1, <1>a DEF Ended, TypeOK, Steps, form
  <2> QED BY <2>1, <1>1, IdleAfter DEF Ended, IInv
<1>2. CASE ToSign
  <2>1. TypeOK'
    <3>1. at' = "sign" /\ passed' = {}
      BY <1>2, <1>a DEF ToSign, TypeOK
    <3>2. todo' \in {<<"sign">>, <<"sign", "gate">>} /\ todo' # << >>
      BY <1>2 DEF ToSign
    <3>3. UNCHANGED <<image, digest, manifest, mode, fields, authMode, authFields, file>>
      BY DEF form
    <3>4. todo' \in {<< >>, <<"check">>, <<"sign">>, <<"gate">>, <<"check", "sign">>,
                    <<"sign", "gate">>, <<"check", "sign", "gate">>}
      BY <3>2 DEF Steps
    <3> QED BY <1>a, <3>1, <3>2, <3>3, <3>4, Zenon DEF TypeOK, Steps
  <2>2. StepInv'
    BY <1>2, <1>a DEF ToSign, StepInv, Steps, form
  <2>3. StageInv'
    BY <1>2, <1>a DEF ToSign, StageInv, Complete, form
  <2>4. GateMatches' /\ GateIsSigned'
    BY <1>2 DEF ToSign, GateMatches, GateIsSigned
  <2> QED BY <2>1, <2>2, <2>3, <2>4 DEF IInv
<1>3. CASE ToDialog(c, E)
  <2>1. TypeOK'
    BY <1>3, <1>a DEF ToDialog, TypeOK, Steps, form
  <2>2. StepInv' /\ StageInv'
    BY <1>3 DEF ToDialog, StepInv, StageInv, Steps
  <2>3. GateMatches'
    BY <1>3 DEF ToDialog, GateMatches, form
  <2>4. GateIsSigned'
    <3>1. Requested => /\ manifest # None /\ Complete(authMode, authFields)
                       /\ calm => Signed(authFields, c)
      BY <1>3, <1>a DEF ToDialog, StageInv
    <3>2. \A q \in passed' : q.content = c /\ q.lines = E
      BY <1>3 DEF ToDialog
    <3>3. manifest # None
      BY <1>a DEF StepInv, Steps
    <3> QED BY <3>1, <3>2, <3>3 DEF GateIsSigned, Requested, Complete, Signed, form
  <2> QED BY <2>1, <2>2, <2>3, <2>4 DEF IInv
<1> QED BY <1>1, <1>2, <1>3

-----------------------------------------------------------------------------
(* The steps of a handler, one lemma for each. *)

LEMMA PressSteps == IInv /\ (PressVerify \/ PressAuthenticate \/ PressWrite) => IInv'
<1> SUFFICES ASSUME IInv, PressVerify \/ PressAuthenticate \/ PressWrite PROVE IInv'
  OBVIOUS
<1>a. TypeOK /\ ResultsAreCurrent
  BY DEF IInv
<1>b. UNCHANGED <<form, digest, file, passed>> /\ at = "idle"
  BY DEF PressVerify, PressAuthenticate, PressWrite
<1>c. passed = {}
  BY <1>a, <1>b DEF TypeOK
<1>1. ResultsAreCurrent'
  <2>1. (result' = result \/ result' = None) /\ (pgp' = pgp \/ pgp' = None)
    BY DEF PressVerify, PressAuthenticate, PressWrite, Authenticate, Clear, ClearAuth
  <2> QED BY <1>a, <1>b, <2>1 DEF ResultsAreCurrent, form
<1>2. CASE at' = "idle"
  <2>1. todo' = << >>
    BY <1>a, <1>b, <1>2 DEF PressVerify, PressAuthenticate, PressWrite, Authenticate, Begin, Return
  <2>2. TypeOK'
    BY <1>a, <1>b, <1>c, <1>2, <2>1 DEF TypeOK, Steps, form
  <2> QED BY <1>1, <1>2, <2>2, IdleAfter DEF IInv
<1>3. CASE at' = "dialog"
  <2>1. /\ todo' = todo /\ ~Requested /\ manifest = None /\ mode = "none"
    BY <1>b, <1>3 DEF PressVerify, PressAuthenticate, PressWrite, Authenticate, Begin, Return
  <2>2. TypeOK'
    BY <1>a, <1>b, <1>c, <1>3, <2>1 DEF TypeOK, Steps, form
  <2>3. todo' = << >>
    BY <1>a, <1>b, <2>1 DEF TypeOK, Steps
  <2>4. StepInv' /\ StageInv'
    BY <1>3, <2>3 DEF StepInv, StageInv, Steps
  <2>5. GateMatches' /\ GateIsSigned'
    BY <1>b, <1>3, <2>1 DEF GateMatches, GateIsSigned, Requested, form
  <2> QED BY <1>1, <2>2, <2>4, <2>5 DEF IInv
<1>4. CASE at' = "look"
  <2>1. \/ todo' = <<"check">>
        \/ /\ todo' \in {<<"check", "sign">>, <<"check", "sign", "gate">>}
           /\ manifest # None /\ Complete(authMode, authFields)
        \/ todo' = <<"gate">> /\ ~Requested
    BY <1>b, <1>4 DEF PressVerify, PressAuthenticate, PressWrite, Authenticate, Begin, Return
  <2>2. TypeOK'
    <3>1. /\ todo' # << >>
          /\ todo' \in {<< >>, <<"check">>, <<"sign">>, <<"gate">>, <<"check", "sign">>,
                        <<"sign", "gate">>, <<"check", "sign", "gate">>}
      BY <2>1
    <3>2. UNCHANGED <<image, digest, manifest, mode, fields, authMode, authFields, file, passed>>
      BY <1>b DEF form
    <3> QED BY <1>a, <1>c, <1>4, <3>1, <3>2, Zenon DEF TypeOK, Steps
  <2>3. StepInv'
    BY <1>4 DEF StepInv, Steps
  <2>4. StageInv'
    BY <1>b, <1>4, <2>1 DEF StageInv, Requested, Complete, form
  <2>5. GateMatches' /\ GateIsSigned'
    BY <1>4 DEF GateMatches, GateIsSigned
  <2> QED BY <1>1, <2>2, <2>3, <2>4, <2>5 DEF IInv
<1> QED BY <1>2, <1>3, <1>4, <1>b
     DEF PressVerify, PressAuthenticate, PressWrite, Authenticate, Begin, Return

(* A failing step ends the handler. *)
LEMMA FailKeeps ==
  ASSUME IInv, at \in Steps, Fails(pgp), UNCHANGED <<form, digest, file, calm>>
  PROVE  IInv'
<1>1. Ended /\ Results(pgp)
  BY FailSteps
<1>2. TypeOK'
  <2>1. TypeOK /\ StageInv
    BY DEF IInv
  <2>2. passed' = {}
    BY <1>1, <2>1 DEF Ended, TypeOK, Steps
  <2> QED BY <1>1, <2>1, <2>2 DEF Ended, TypeOK, Steps, form
<1>3. ResultsAreCurrent'
  BY <1>1, ResultsStay DEF IInv
<1> QED BY <1>1, <1>2, <1>3, IdleAfter DEF Ended, IInv

LEMMA LookStep == IInv /\ Look => IInv'
<1> SUFFICES ASSUME IInv, Look PROVE IInv'
  OBVIOUS
<1>1. CASE Fails(pgp)
  BY <1>1, FailKeeps DEF Look, Steps
<1>2. CASE ~Fails(pgp)
  <2> DEFINE s == IF mode = "none" THEN "read" ELSE "signature"
  <2>1. /\ image # None /\ manifest # None /\ digest # None
        /\ mode # "none" => Complete(mode, fields)
        /\ at = "look" /\ at' = s
        /\ UNCHANGED <<form, digest, file, calm, todo, result, pgp, passed>>
    BY <1>2 DEF Look, Step
  <2>2. TypeOK'
    BY <2>1 DEF IInv, TypeOK, Steps, form
  <2>3. StepInv' /\ StageInv'
    BY <2>1 DEF IInv, StepInv, StageInv, Steps, Complete, Requested, Signed, form
  <2>4. ResultsAreCurrent' /\ GateMatches' /\ GateIsSigned'
    BY <2>1 DEF IInv, ResultsAreCurrent, GateMatches, GateIsSigned, form
  <2> QED BY <2>2, <2>3, <2>4 DEF IInv
<1> QED BY <1>1, <1>2

LEMMA ReadStep == IInv /\ Read => IInv'
<1> SUFFICES ASSUME IInv, Read PROVE IInv'
  OBVIOUS
<1>1. CASE file[manifest] = None
  BY <1>1, FailKeeps DEF Read, Steps
<1>2. CASE file[manifest] # None
  <2> DEFINE c == file[manifest]
  <2>1. Match(c, Lines[c], pgp) /\ at = "read" /\ UNCHANGED <<form, digest, file, calm>>
    BY <1>2 DEF Read
  <2>2. Results(pgp) /\ (Ended \/ ToSign \/ ToDialog(c, Lines[c]))
    BY <2>1, MatchSteps DEF IInv
  <2>3. ResultsAreCurrent'
    BY <2>1, <2>2, ResultsStay DEF IInv
  <2>4. mode = "none"
    BY <2>1 DEF IInv, StepInv
  <2> QED BY <2>1, <2>2, <2>3, <2>4, MatchKeeps
<1> QED BY <1>1, <1>2

LEMMA SignatureStep == IInv /\ CheckSignature => IInv'
<1> SUFFICES ASSUME IInv, CheckSignature PROVE IInv'
  OBVIOUS
<1> DEFINE c == file[manifest]
           E == Covered[c]
           g == Verified(1, mode, fields, E)
<1>a. /\ at = "signature" /\ UNCHANGED <<form, digest, file, calm>>
      /\ mode # "none" /\ Complete(mode, fields)
  BY DEF CheckSignature, IInv, StepInv
<1>1. CASE ~Signed(fields, c)
  BY <1>a, <1>1, FailKeeps DEF CheckSignature, SignatureHolds, Steps
<1>2. CASE Signed(fields, c) /\ mode = "detached"
  <2>1. at' = "text" /\ UNCHANGED <<todo, result, pgp, passed>>
    BY <1>2 DEF CheckSignature, SignatureHolds, Step
  <2>2. TypeOK'
    BY <1>a, <2>1 DEF IInv, TypeOK, Steps, form
  <2>3. StepInv' /\ StageInv'
    BY <1>a, <1>2, <2>1 DEF IInv, StepInv, StageInv, Steps, Complete, Requested, Signed, form
  <2>4. ResultsAreCurrent' /\ GateMatches' /\ GateIsSigned'
    BY <1>a, <2>1 DEF IInv, ResultsAreCurrent, GateMatches, GateIsSigned, form
  <2> QED BY <2>2, <2>3, <2>4 DEF IInv
<1>3. CASE Signed(fields, c) /\ mode # "detached"
  <2>1. Match(c, E, g)
    BY <1>3 DEF CheckSignature, SignatureHolds
  <2>2. Results(g) /\ (Ended \/ ToSign \/ ToDialog(c, E))
    BY <1>a, <2>1, MatchSteps DEF IInv
  <2>3. g.image = image /\ g.manifest = manifest /\ g.layer = 1 /\ g.with = <<mode, fields>>
    BY DEF Verified
  <2> HIDE DEF g
  <2>4. ResultsAreCurrent'
    BY <1>a, <2>2, <2>3, ResultsStay DEF IInv
  <2> QED BY <1>a, <1>3, <2>2, <2>4, MatchKeeps
<1> QED BY <1>1, <1>2, <1>3

(* When the text is read, the file may no longer be the one gpg checked;     *)
(* then calm is FALSE.                                                       *)
LEMMA TextStep == IInv /\ ReadText => IInv'
<1> SUFFICES ASSUME IInv, ReadText PROVE IInv'
  OBVIOUS
<1> DEFINE c == file[manifest]
           E == Lines[c]
           g == Verified(1, mode, fields, E)
<1>a. /\ at = "text" /\ UNCHANGED <<form, digest, file, calm>>
      /\ mode = "detached" /\ Complete(mode, fields)
      /\ calm => Signed(fields, c)
  BY DEF ReadText, IInv, StepInv
<1>1. CASE c = None
  BY <1>a, <1>1, FailKeeps DEF ReadText, Steps
<1>2. CASE c # None
  <2>1. Match(c, E, g)
    BY <1>2 DEF ReadText
  <2>2. Results(g) /\ (Ended \/ ToSign \/ ToDialog(c, E))
    BY <1>a, <2>1, MatchSteps DEF IInv
  <2>3. g.image = image /\ g.manifest = manifest /\ g.layer = 1 /\ g.with = <<mode, fields>>
    BY DEF Verified
  <2> HIDE DEF g
  <2>4. ResultsAreCurrent'
    BY <1>a, <2>2, <2>3, ResultsStay DEF IInv
  <2> QED BY <1>a, <2>2, <2>4, MatchKeeps
<1> QED BY <1>1, <1>2

(* The signature stage ends the handler, or leaves the gate, with the        *)
(* signature in hand.                                                        *)
LEMMA SignKeeps ==
  ASSUME IInv, at \in {"sign", "authText"}, NEW E,
         Refuse \/ (Sign(E) /\ (calm => Signed(authFields, file[manifest]))),
         UNCHANGED <<form, digest, result, file, passed, calm>>
  PROVE  IInv'
<1>a. TypeOK /\ StageInv /\ todo \in {<<"sign">>, <<"sign", "gate">>}
  BY DEF IInv, StageInv
<1>b. passed = {}
  BY <1>a DEF TypeOK
<1>1. ResultsAreCurrent'
  <2>1. ResultsAreCurrent
    BY DEF IInv
  <2>2. CASE Refuse
    BY <2>1, <2>2 DEF Refuse, ResultsAreCurrent, form
  <2>3. CASE Sign(E)
    BY <2>1, <2>3 DEF Sign, Verified, ResultsAreCurrent, form
  <2> QED BY <2>2, <2>3
<1>2. \/ at' = "idle" /\ todo' = << >>
      \/ /\ at' = "look" /\ todo' = <<"gate">> /\ todo = <<"sign", "gate">>
         /\ calm => Signed(authFields, file[manifest])
  <2>1. Tail(<<"sign", "gate">>) = <<"gate">> /\ Len(<<"sign">>) = 1
    OBVIOUS
  <2> QED BY <1>a, <2>1 DEF Sign, Refuse, Return
<1>3. CASE at' = "idle" /\ todo' = << >>
  <2>1. TypeOK'
    BY <1>a, <1>b, <1>3 DEF TypeOK, Steps, form
  <2> QED BY <1>1, <1>3, <2>1, IdleAfter DEF IInv
<1>4. CASE /\ at' = "look" /\ todo' = <<"gate">> /\ todo = <<"sign", "gate">>
           /\ calm => Signed(authFields, file[manifest])
  <2>1. TypeOK'
    <3>1. /\ todo' # << >>
          /\ todo' \in {<< >>, <<"check">>, <<"sign">>, <<"gate">>, <<"check", "sign">>,
                        <<"sign", "gate">>, <<"check", "sign", "gate">>}
      BY <1>4
    <3>2. UNCHANGED <<image, digest, manifest, mode, fields, authMode, authFields, file, passed>>
      BY DEF form
    <3> QED BY <1>a, <1>b, <1>4, <3>1, <3>2, Zenon DEF TypeOK, Steps
  <2>2. manifest # None /\ Complete(authMode, authFields)
    BY <1>a, <1>4 DEF StageInv
  <2>3. StepInv' /\ StageInv'
    BY <1>4, <2>2 DEF StepInv, StageInv, Steps, Complete, Signed, form
  <2>4. GateMatches' /\ GateIsSigned'
    BY <1>4 DEF GateMatches, GateIsSigned
  <2> QED BY <1>1, <2>1, <2>3, <2>4 DEF IInv
<1> QED BY <1>2, <1>3, <1>4

LEMMA AuthStep == IInv /\ CheckAuth => IInv'
<1> SUFFICES ASSUME IInv, CheckAuth PROVE IInv'
  OBVIOUS
<1> DEFINE c == file[manifest]
<1>a. at = "sign" /\ UNCHANGED <<form, digest, result, file, passed, calm>>
  BY DEF CheckAuth
<1>1. CASE ~Signed(authFields, c)
  BY <1>a, <1>1, SignKeeps DEF CheckAuth, SignatureHolds
<1>2. CASE Signed(authFields, c) /\ authMode = "detached"
  <2>1. at' = "authText" /\ UNCHANGED <<todo, pgp>>
    BY <1>2 DEF CheckAuth, SignatureHolds
  <2>2. TypeOK'
    BY <1>a, <2>1 DEF IInv, TypeOK, Steps, form
  <2>3. StepInv' /\ StageInv'
    BY <1>a, <1>2, <2>1 DEF IInv, StepInv, StageInv, Steps, Complete, Requested, Signed, form
  <2>4. ResultsAreCurrent' /\ GateMatches' /\ GateIsSigned'
    BY <1>a, <2>1 DEF IInv, ResultsAreCurrent, GateMatches, GateIsSigned, form
  <2> QED BY <2>2, <2>3, <2>4 DEF IInv
<1>3. CASE Signed(authFields, c) /\ authMode # "detached"
  BY <1>a, <1>3, SignKeeps DEF CheckAuth, SignatureHolds
<1> QED BY <1>1, <1>2, <1>3

LEMMA AuthTextStep == IInv /\ ReadAuthText => IInv'
<1> SUFFICES ASSUME IInv, ReadAuthText PROVE IInv'
  OBVIOUS
<1>1. calm => Signed(authFields, file[manifest])
  BY DEF ReadAuthText, IInv, StageInv
<1> QED BY <1>1, SignKeeps DEF ReadAuthText

LEMMA DialogStep == IInv /\ AnswerDialog => IInv'
<1> SUFFICES ASSUME IInv, AnswerDialog PROVE IInv'
  OBVIOUS
<1>1. TypeOK' /\ ResultsAreCurrent'
  BY DEF IInv, AnswerDialog, Return, TypeOK, Steps, ResultsAreCurrent, form
<1> QED BY <1>1, IdleAfter DEF AnswerDialog, Return, IInv

(* The digest changes only where no step rests on it, and a change of a      *)
(* manifest file ends the calm that the promises about its contents need.    *)
LEMMA EnvironmentStep == IInv /\ Environment => IInv'
<1> SUFFICES ASSUME IInv, Environment PROVE IInv'
  OBVIOUS
<1>1. ASSUME NEW d \in Digests \cup {None}, HashReady(d) PROVE IInv'
  <2>1. TypeOK'
    BY <1>1 DEF IInv, HashReady, TypeOK, form, handler
  <2>2. StepInv' /\ StageInv'
    BY <1>1 DEF IInv, HashReady, StepInv, StageInv, Steps, Complete, Requested, Signed, form, handler
  <2>3. ResultsAreCurrent' /\ GateMatches' /\ GateIsSigned'
    BY <1>1 DEF IInv, HashReady, ResultsAreCurrent, GateMatches, GateIsSigned, Complete, Requested,
                Signed, form, handler
  <2> QED BY <2>1, <2>2, <2>3 DEF IInv
<1>2. ASSUME NEW m \in Manifests, NEW c \in Contents \cup {None}, EditManifest(m, c) PROVE IInv'
  <2>1. TypeOK'
    BY <1>2 DEF IInv, EditManifest, TypeOK, form, handler
  <2>2. StepInv' /\ StageInv'
    BY <1>2 DEF IInv, EditManifest, StepInv, StageInv, Steps, Complete, Requested, form, handler
  <2>3. ResultsAreCurrent'
    BY <1>2 DEF IInv, EditManifest, ResultsAreCurrent, form
  <2>4. GateMatches' /\ GateIsSigned'
    BY <1>2 DEF IInv, EditManifest, GateMatches, GateIsSigned, Complete, Requested, Signed, form, handler
  <2> QED BY <2>1, <2>2, <2>3, <2>4 DEF IInv
<1> QED BY <1>1, <1>2 DEF Environment

-----------------------------------------------------------------------------
LEMMA InvStep == IInv /\ [Next]_vars => IInv'
<1> SUFFICES ASSUME IInv, [Next]_vars PROVE IInv'
  OBVIOUS
<1>1. CASE Edit
  <2>1. at' = "idle" /\ TypeOK' /\ ResultsAreCurrent'
    BY <1>1, EditSteps DEF IInv, handler
  <2> QED BY <2>1, IdleAfter DEF IInv
<1>2. CASE UNCHANGED vars
  <2>1. TypeOK' /\ StepInv' /\ StageInv'
    BY <1>2 DEF IInv, vars, form, handler, TypeOK, StepInv, StageInv, Complete, Requested, Signed
  <2>2. ResultsAreCurrent' /\ GateMatches' /\ GateIsSigned'
    BY <1>2 DEF IInv, vars, form, handler, ResultsAreCurrent, GateMatches, GateIsSigned, Complete,
                Requested, Signed
  <2> QED BY <2>1, <2>2 DEF IInv
<1> QED BY <1>1, <1>2, EnvironmentStep, PressSteps, DialogStep, LookStep, ReadStep, SignatureStep,
           TextStep, AuthStep, AuthTextStep DEF Next

(* The inductive invariant: fields, results, stages and gates fit together.  *)
THEOREM Inductive == Spec => []IInv
<1> QED BY InvInit, InvStep, PTL DEF Spec

(* The variables of the window and the handler keep their types. *)
THEOREM Types == Spec => []TypeOK
<1>1. IInv => TypeOK
  BY DEF IInv
<1> QED BY <1>1, Inductive, PTL

(* A result that is kept belongs to the fields as they are.                  *)
THEOREM ResultsCurrent == Spec => []ResultsAreCurrent
<1>1. IInv => ResultsAreCurrent
  BY DEF IInv
<1> QED BY <1>1, Inductive, PTL

(* With a manifest selected, only a match that was read for this write gets  *)
(* past the gate, whatever other programs do to the file meanwhile.          *)
THEOREM GateMatching == Spec => []GateMatches
<1>1. IInv => GateMatches
  BY DEF IInv
<1> QED BY <1>1, Inductive, PTL

(* A signature that was asked for, in either layer, is there at the gate.    *)
THEOREM GateSigned == Spec => []GateIsSigned
<1>1. IInv => GateIsSigned
  BY DEF IInv
<1> QED BY <1>1, Inductive, PTL

===============================================================================
