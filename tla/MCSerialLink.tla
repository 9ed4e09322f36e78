---------------------------- MODULE MCSerialLink ----------------------------
(* TLC instance of SerialLink: frames of three bytes, the messages one byte *)
(* each, 5 the start byte, 0 the message whose checksum is the start byte;  *)
(* a ring of two frames.                                                    *)
EXTENDS SerialLink

OneByteRequests == {<<0>>, <<1>>, <<2>>, <<5>>}
OneByteAnswers  == {<<0>>, <<1>>, <<5>>}

=============================================================================
