---------------------------- MODULE MCAxtpClient ----------------------------
(* AxtpClient with every combination of options and up to two attempts.    *)
EXTENDS AxtpClient

CONSTANTS e1, e2, e3, none, infinity

MCOptions ==
    [reconnect : BOOLEAN, maxAttempts : {0, 2, infinity},
     resetBackoffOnSuccess : BOOLEAN,
     handshakeTimeout : BOOLEAN, connectTimeout : BOOLEAN]
=============================================================================
