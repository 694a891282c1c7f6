------------------------------ MODULE Investigator ------------------------------
(***************************************************************************)
(* How an investigator comes to its report (src/packages/zg-adapters/src/  *)
(* compute.ts): 0G Compute first, then a model by API key, then a stub;    *)
(* and the label the report gets.                                          *)
(*                                                                         *)
(* The world an investigation meets is a record:                           *)
(*   mode         auto, live or local                                      *)
(*   live         "none" (not configured, or no such service listed),      *)
(*                "fails" (any call on the way throws) or the text of the  *)
(*                answer                                                   *)
(*   attestation  "noChatId", or what processResponse makes of the answer: *)
(*                "true", "false", "null" or "throws"                      *)
(*   anthropic, openai   "noKey", "fails" or the text of the answer        *)
(*   evidence     the evidence texts: "empty", or with "noFigures", only   *)
(*                with figures "matching" (within 3 %, some figure of the  *)
(*                claim), or with a "conflicting" one among them           *)
(* The text of an answer is the verdict in it, a verdict nobody knows, or  *)
(* garbled.                                                                *)
(***************************************************************************)
EXTENDS Integers, FiniteSets

ReportVerdict == {"SUPPORTS", "REJECTS", "INSUFFICIENT_EVIDENCE"}

Answer == {"SUPPORTS", "REJECTS", "unknownVerdict", "garbled"}

AttestationMode == {"0G_COMPUTE_TEE", "LOCAL_LLM", "SIMULATED"}

\* parseVerdictJson
ParseVerdictJson(text) == IF text \in ReportVerdict THEN text ELSE "INSUFFICIENT_EVIDENCE"

-----------------------------------------------------------------------------
\* What a step of investigate() comes to: a verdict, nothing, or an error.
Nothing == [kind |-> "nothing"]

Threw == [kind |-> "threw"]

Answered(verdict, attested) == [kind |-> "answered", verdict |-> verdict, attested |-> attested]

\* A slip: an answer without a chat id needs no attestation.
AttestedUnlessRefused(world) == world.attestation \in {"true", "noChatId"}

Attested(world) == world.attestation = "true"

TryLive(world) ==
  IF world.live = "none" THEN Nothing
  ELSE IF world.live = "fails" \/ world.attestation = "throws" THEN Threw
  ELSE Answered(ParseVerdictJson(world.live), Attested(world))

TryLocalLlm(world) ==
  LET ask(text) == IF text = "fails" THEN Threw ELSE Answered(ParseVerdictJson(text), FALSE)
  IN IF world.anthropic # "noKey" THEN ask(world.anthropic)
     ELSE IF world.openai # "noKey" THEN ask(world.openai)
     ELSE Nothing

Simulate(world) ==
  CASE world.evidence = "empty" -> "INSUFFICIENT_EVIDENCE"
    [] world.evidence = "matching" -> "SUPPORTS"
    [] OTHER -> "REJECTS"

-----------------------------------------------------------------------------
Finalize(verdict, mode, verified) ==
  [kind |-> "report", verdict |-> verdict, mode |-> mode, verified |-> verified]

\* In the modes other than live an error of 0G Compute is passed over.
LiveErrorSurfaces(world) == world.mode = "live" /\ TryLive(world) = Threw

WithoutLive(world) ==
  LET local == TryLocalLlm(world)
  IN IF local = Threw THEN Threw
     ELSE IF local # Nothing THEN Finalize(local.verdict, "LOCAL_LLM", FALSE)
     ELSE Finalize(Simulate(world), "SIMULATED", FALSE)

Investigate(world) ==
  LET live == TryLive(world)
  IN IF world.mode = "local" THEN WithoutLive(world)
     ELSE IF LiveErrorSurfaces(world) THEN Threw
     ELSE IF live.kind = "answered" THEN Finalize(live.verdict, "0G_COMPUTE_TEE", live.attested)
     ELSE WithoutLive(world)

-----------------------------------------------------------------------------
(***************************************************************************)
(* What becomes of the label: the driver sends it to the contract, and     *)
(* agentVerifyClaim sums it up (src/demo/lib.ts).                          *)
(***************************************************************************)
VerdictIndex(verdict) == CASE verdict = "SUPPORTS" -> 1 [] verdict = "REJECTS" -> 2 [] OTHER -> 0

AttestationModeIndex(mode) ==
  CASE mode = "0G_COMPUTE_TEE" -> 0 [] mode = "LOCAL_LLM" -> 1 [] OTHER -> 2

AnyLiveTee(reports) == \E r \in reports : r.mode = "0G_COMPUTE_TEE" /\ r.verified
=============================================================================
