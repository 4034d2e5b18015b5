----------------------------- MODULE Backends ------------------------------
(***************************************************************************)
(* The choice of the backend, and the one that asks a model.  What the     *)
(* model's service does with a request is an answer: [failure] if the call *)
(* raises, [content] if it returns.                                        *)
(***************************************************************************)
EXTENDS RulesNormalizer

(* NORMALIZATION_BACKEND in lower case, "auto" if it is not set.           *)
ResolveBackendName(configured, key) ==
  IF configured # "auto"
    THEN IF configured \in {"openai", "rules"} THEN configured ELSE "rules"
    ELSE IF key THEN "openai" ELSE "rules"

Retryable == [error |-> "RetryableNormalizationError"]

(* The profile is looked up for the prompt, once the key has been tested   *)
(* and outside of the try block.  Every exception that parsing the content *)
(* raises is a permanent failure; Absent is content that is no object.     *)
OpenAINormalize(key, found, answer) ==
  IF ~key THEN NormalizationError
  ELSE IF ~found THEN LookupError
  ELSE IF "failure" \in DOMAIN answer
    THEN IF answer.failure \in {"RateLimitError", "APITimeoutError", "APIError"}
           THEN Retryable ELSE NormalizationError
  ELSE IF answer.content = Absent THEN NormalizationError
  ELSE IF FromDict(answer.content) = ValueError THEN NormalizationError
  ELSE FromDict(answer.content)
============================================================================
