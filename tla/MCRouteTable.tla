---------------------------- MODULE MCRouteTable ----------------------------
(* Values of RouteTable's constants for TLC. *)
EXTENDS RouteTable

\* Every path over three characters that starts with a slash, up to length 3.  The
\* reserved prefix is "/a": "/a" and "/a/" are under it, "/ab" and "/aa" are not.
MCChars == {"/", "a", "b"}
MCPaths == {<<"/">>} \cup {<<"/", x>> : x \in MCChars}
             \cup {<<"/", x, y>> : x, y \in MCChars}
MCAdminPrefix == <<"/", "a">>
MCAdminSlash == <<"/", "a", "/">>
=============================================================================
