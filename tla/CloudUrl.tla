------------------------------- MODULE CloudUrl -------------------------------
(* normalise_cloud_url: what `pair --enrol` makes of the URL it is given.    *)
(* A URL is the sequence of what stands between its slashes, so that         *)
(* https://h/docs/ is <<"https:", "", "h", "docs", "">>.                     *)
EXTENDS Naturals, Sequences

(* What stands between two slashes with nothing between them.               *)
Gap == ""

(* The paths people paste, at most one of which can end a URL.              *)
Pastes == { <<"v1", "mcp">>, <<"v1", "agent", "enroll">>, <<"v1", "agent">>, <<"v1">>,
            <<"account", "agents">>, <<"account", "signup">>, <<"account", "login">>,
            <<"account">>, <<"admin", "tenants">>, <<"admin">>, <<"docs">> }

Rounds == 6

Front(u, n) == SubSeq(u, 1, n)
EndsWith(u, p) == Len(u) > Len(p) /\ SubSeq(u, Len(u) - Len(p) + 1, Len(u)) = p

(* trim_end_matches('/'): the longest front that does not end in a slash.   *)
Trim(u) ==
    LET full == { n \in 1 .. Len(u) : u[n] # Gap } IN
    IF full = {} THEN <<Gap>> ELSE Front(u, CHOOSE n \in full : \A k \in full : k <= n)

(* Variant: what was stripped leaves its slashes.                           *)
StripBare(u) ==
    IF \E p \in Pastes : EndsWith(u, p)
    THEN Front(u, Len(u) - Len(CHOOSE p \in Pastes : EndsWith(u, p)))
    ELSE u

(* One round: a paste at the end is stripped, with the slashes before it.   *)
Strip(u) ==
    IF \E p \in Pastes : EndsWith(u, p)
    THEN Trim(Front(u, Len(u) - Len(CHOOSE p \in Pastes : EndsWith(u, p))))
    ELSE u

Normalise(u) ==
    LET after[n \in 0 .. Rounds] == IF n = 0 THEN Trim(u) ELSE Strip(after[n - 1])
    IN  after[Rounds]

Base(host) == <<"https:", Gap, host>>

(* A host is not itself named like a path: of https://docs `https:` is left. *)
IsHost(host) == host # Gap /\ <<host>> \notin Pastes

(* Up to two pastes behind a host, with up to two slashes more than needed. *)
Slashed(urls) == { u \o s : u \in urls, s \in { <<>>, <<Gap>>, <<Gap, Gap>> } }
Pasted(urls) == urls \cup { u \o p : u \in urls, p \in Pastes }
PastedOnto(host) == Slashed(Pasted(Slashed(Pasted(Slashed({ Base(host) })))))
===============================================================================
