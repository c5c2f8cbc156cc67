---------------------------- MODULE MCConnection ----------------------------
(***************************************************************************)
(* Small instances of Connection for TLC: a length field of two bytes and  *)
(* messages of at most six, so that a frame can be cut inside its length   *)
(* field and inside its body, and a reply can be too big.                  *)
(***************************************************************************)
EXTENDS Connection

\* Two requests that fill rbuf together; the third is as long as a message
\* may be and fills it alone.
MCBody == <<2, 2, 6>>

\* A fourth that parse_req rejects.
MCRejected == <<2, 2, 6, 1>>

\* The first reply is too big by one byte, the second would overrun wbuf,
\* the third just fits.
MCOut == <<5, 7, 4>>
MCOutRejected == <<5, 7, 4, 1>>

MCFirstThree == {1, 2, 3}
=============================================================================
