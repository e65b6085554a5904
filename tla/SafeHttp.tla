------------------------------ MODULE SafeHttp ------------------------------
(***************************************************************************)
(* The HTTP client for destinations that a tenant configures               *)
(* (shared/safehttp): which address a connection may go to.  A host name   *)
(* is resolved once per dial and its answers may change between dials; an  *)
(* address is its four octets (IPv4; ports and IPv6 are left out).         *)
(***************************************************************************)
EXTENDS Integers, FiniteSets

CONSTANTS
    NoHost,   \* no proxy for a request
    Hosts,    \* the destinations, and the names of proxies
    Answers,  \* Answers[h]: the sets of addresses a lookup of h may return
    Proxies,  \* Proxies[h]: what the operator's proxy function may return for h
    Requests  \* identities of the requests in flight

Addresses == (0..255) \X (0..255) \X (0..255) \X (0..255)

\* What the constants stand for; a hypothesis of the theorems.
HttpConstantsOK == \A h \in Hosts : Answers[h] \subseteq SUBSET Addresses

VARIABLES
    allow,  \* proxyAddrSet.seen
    req,    \* the state of each request
    conns   \* the connections made: request, dialled host, address, through a proxy or not

httpVars == <<allow, req, conns>>

Idle == [step |-> "idle", host |-> NoHost, addr |-> NoHost, ips |-> {}]

HttpInit == allow = {} /\ req = [q \in Requests |-> Idle] /\ conns = {}

-----------------------------------------------------------------------------
IsLoopback(ip) == ip[1] = 127

IsUnspecified(ip) == ip = <<0, 0, 0, 0>>

IsLinkLocalUnicast(ip) == ip[1] = 169 /\ ip[2] = 254

IsMulticast(ip) == ip[1] \in 224..239

IsPrivate(ip) == ip[1] = 10 \/ (ip[1] = 172 /\ ip[2] \in 16..31) \/ (ip[1] = 192 /\ ip[2] = 168)

IsPublicIP(ip) ==
    /\ ~(IsLoopback(ip) \/ IsUnspecified(ip) \/ IsLinkLocalUnicast(ip) \/ IsMulticast(ip) \/ IsPrivate(ip))
    /\ ~(ip[1] = 100 /\ ip[2] >= 64 /\ ip[2] < 128)
    /\ ~(ip[1] = 192 /\ ip[2] = 0 /\ ip[3] \in {0, 2})
    /\ ~(ip[1] = 198 /\ ip[2] = 51 /\ ip[3] = 100)
    /\ ~(ip[1] = 203 /\ ip[2] = 0 /\ ip[3] = 113)
    /\ ~(ip[1] = 198 /\ ip[2] \in {18, 19})
    /\ ~(ip[1] = 192 /\ ip[2] = 88 /\ ip[3] = 99)

-----------------------------------------------------------------------------
\* http.Transport asks the wrapped proxy function first; the address of a proxy is
\* recorded before it is dialled.
Proxy(q, h) ==
    /\ req[q].step = "idle"
    /\ \E u \in Proxies[h] :
          /\ allow' = IF u = NoHost THEN allow ELSE allow \cup {u}
          /\ req' = [req EXCEPT ![q] = [step |-> "dial", host |-> h, addr |-> IF u = NoHost THEN h ELSE u, ips |-> {}]]
    /\ UNCHANGED conns

Done(q) == req' = [req EXCEPT ![q].step = "done"]

Connects(q, ip) == conns' = conns \cup {[q |-> q, host |-> req[q].addr, ip |-> ip]}

\* The dial of the transport: a recorded proxy is dialled as it is.
DialProxy(q) ==
    /\ req[q].step = "dial" /\ req[q].addr \in allow
    /\ \E ips \in Answers[req[q].addr] : \E ip \in ips : Connects(q, ip)
    /\ req' = [req EXCEPT ![q].step = "open"]
    /\ UNCHANGED allow

\* The first half of guardedDialContext: resolve, and refuse a mixed answer.
Lookup(q) ==
    /\ req[q].step = "dial" /\ req[q].addr \notin allow
    /\ \E ips \in Answers[req[q].addr] :
          req' = IF \A ip \in ips : IsPublicIP(ip) THEN [req EXCEPT ![q].step = "try", ![q].ips = ips]
                 ELSE [req EXCEPT ![q].step = "done"]
    /\ UNCHANGED <<allow, conns>>

\* Mutant: the name is resolved again for the connection.
guardedDialAgain(q) ==
    /\ req[q].step = "try"
    /\ \E ips \in Answers[req[q].addr] : \E ip \in ips : Connects(q, ip)
    /\ req' = [req EXCEPT ![q].step = "open"]
    /\ UNCHANGED allow

\* The second half: the validated addresses are tried in turn, until one answers.
guardedDial(q) ==
    /\ req[q].step = "try"
    /\ \/ req[q].ips = {} /\ Done(q) /\ UNCHANGED conns
       \/ \E ip \in req[q].ips :
            \/ Connects(q, ip) /\ req' = [req EXCEPT ![q].step = "open"]
            \/ req' = [req EXCEPT ![q].ips = @ \ {ip}] /\ UNCHANGED conns
    /\ UNCHANGED allow

\* The response, a redirect included, is handed back as it is (CheckRedirect).
Response(q) == req[q].step = "open" /\ Done(q) /\ UNCHANGED <<allow, conns>>

HttpNext == \E q \in Requests : (\E h \in Hosts : Proxy(q, h)) \/ DialProxy(q) \/ Lookup(q) \/ guardedDial(q) \/ Response(q)

HttpSpec == HttpInit /\ [][HttpNext]_httpVars

-----------------------------------------------------------------------------
(* Properties.                                                              *)

\* The ranges the documentation of IsPublicIP lists, by their first and last /24.
Reserved ==
    { <<<<127, 0, 0>>, <<127, 255, 255>>>>, <<<<169, 254, 0>>, <<169, 254, 255>>>>, <<<<224, 0, 0>>, <<239, 255, 255>>>>,
      <<<<10, 0, 0>>, <<10, 255, 255>>>>, <<<<172, 16, 0>>, <<172, 31, 255>>>>, <<<<192, 168, 0>>, <<192, 168, 255>>>>,
      <<<<100, 64, 0>>, <<100, 127, 255>>>>, <<<<192, 0, 0>>, <<192, 0, 0>>>>, <<<<192, 0, 2>>, <<192, 0, 2>>>>,
      <<<<198, 51, 100>>, <<198, 51, 100>>>>, <<<<203, 0, 113>>, <<203, 0, 113>>>>, <<<<198, 18, 0>>, <<198, 19, 255>>>>,
      <<<<192, 88, 99>>, <<192, 88, 99>>>> }

Number(ip) == ip[1] * 65536 + ip[2] * 256 + ip[3]

InReserved(ip) ==
    ip = <<0, 0, 0, 0>> \/ \E r \in Reserved : Number(r[1]) <= Number(ip) /\ Number(ip) <= Number(r[2])

\* A connection goes to an address outside every reserved range or to a host that
\* the operator named as a proxy, whatever a name resolves to and however its
\* answers change between the check and the connection (guardedDialContext:
\* "connects to one of the validated IPs directly so the connection cannot race a
\* re-resolution to a different (internal) address").
OnlyPublicDialled == \A c \in conns : InReserved(c.ip) => \E h \in Hosts : c.host \in Proxies[h] \ {NoHost}

=============================================================================
