--------------------------- MODULE MCRemoteNetwork ---------------------------
(***************************************************************************)
(* RemoteNetwork with the command lines of the README and of               *)
(* USB_GADGET_SETUP.md.                                                    *)
(***************************************************************************)
EXTENDS RemoteNetwork

SetUp == [setup |-> TRUE, tcp |-> FALSE, listen |-> Own]
Plain == [setup |-> FALSE, tcp |-> FALSE, listen |-> Own]
Tcp == [setup |-> FALSE, tcp |-> TRUE, listen |-> AnyAddress]
QuickTest == [setup |-> TRUE, tcp |-> TRUE, listen |-> Own]

Documented == {SetUp, Plain, Tcp, QuickTest}
QuickTestOnly == {QuickTest}

\* Two IPv4 addresses, each with the gateway the other one does not ask for,
\* and an IPv6 address without one.
Asked == [address : {Own}, gateway : Elsewhere]
         \cup [address : Inet \ {Own}, gateway : Gateways4 \ Elsewhere]
         \cup [address : Inet6, gateway : {None}]

\* Every gateway is on the link of every address of its family.
FamilyLinks == (Inet \X Gateways4) \cup (Inet6 \X Gateways6)
===============================================================================
