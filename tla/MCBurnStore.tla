---------------------------- MODULE MCBurnStore ----------------------------
(* Small instances of BurnStore: a link minted by seal.py, one minted in the *)
(* TCP form, and a forged one.                                               *)
EXTENDS BurnStore

AllForms == {"link", "tcplink", "forged"}
OneLink == {"link"}
MintedForms == {"link", "tcplink"}
TcpForms == {"tcplink"}
NoForms == {}

\* "link" outlives the others by one tick.
FormExp == [c \in AllForms |-> IF c = "link" THEN 1 ELSE 0]
LinkExp == [c \in OneLink |-> 0]
=============================================================================
