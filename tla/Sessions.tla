------------------------------ MODULE Sessions ------------------------------
(***************************************************************************)
(* Messages and session ids, as the pairing components see them. A message *)
(* is an object of the program with an identity of its own; all that the   *)
(* components read of it is its session id.                                *)
(***************************************************************************)
CONSTANTS Messages,   \* the messages the receiver may hand over, each once
          Keys,       \* session ids: Message::getSessionID(), also getKey()
          KeyOf,      \* the session id of a message
          NoMsg       \* nullptr where a message is expected

ASSUME KeyAssumption == /\ KeyOf \in [Messages -> Keys]
                        /\ NoMsg \notin Messages

MsgOrNull == Messages \cup {NoMsg}
=============================================================================
