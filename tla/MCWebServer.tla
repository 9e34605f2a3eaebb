---------------------------- MODULE MCWebServer -----------------------------
(* A page of three chunks, which the transmit buffer does not hold at once,  *
 * a small answer, paths that are not found and two colours.                 *)
EXTENDS WebServer

R(method, path, colour) == [method |-> method, path |-> path, colour |-> colour]

Browser == {R("GET", "/", 0), R("GET", "/stats", 0), R("GET", "/other", 0),
            R("POST", "/rgb", 1), R("POST", "/rgb", 2), R("POST", "/other", 0)}
PagesOnly == {R("GET", "/", 0), R("GET", "/stats", 0)}
WithHead == {R("GET", "/stats", 0), R("HEAD", "/", 0)}

\* The stream is cut anywhere after the request line, but a body arrives with
\* the end of the fields.
BodyWithEnd == {"path", "fields"}
AfterLine   == {"path", "fields", "end"}
=============================================================================
