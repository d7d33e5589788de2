-------------------------------- MODULE MCLink --------------------------------
(***************************************************************************)
(* An instance of Link for TLC, with the frames other connections send:    *)
(* every command of a page with one of its fields given any other value or *)
(* left out, and frames that are no JSON object or too large.              *)
(***************************************************************************)
EXTENDS Link

Values ==
  Strings \cup Numbers \cup Objects \cup Arrays \cup CommandType
  \cup {"null", "true", "absent", "v1"}

Wrong(m) == {[m EXCEPT ![name] = value] : name \in DOMAIN m, value \in Values}

MCStrays ==
  {[shape |-> "object", message |-> m] :
     m \in UNION {Wrong(c) : c \in Builders \cup {buildAuth(t) : t \in {"null", "uuid"}}}}
  \cup {[shape |-> shape, message |-> NoEvent] : shape \in {"huge", "text"}}
===============================================================================
