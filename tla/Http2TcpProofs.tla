--------------------------- MODULE Http2TcpProofs ---------------------------
(***************************************************************************)
(* The HTTP/2 relay implements the pipe of TcpPipe in each direction, for  *)
(* every window, read buffer and stream length.                            *)
(***************************************************************************)
EXTENDS Http2Tcp, TLAPS

\* The inductive invariant.  client_to_target holds at most one chunk between
\* taken and received, and capacity is released behind the write, so a window
\* bounds what has arrived and was not written; target_to_client holds at most
\* one buffer between fetched and got, and none when it reads again.
Inv ==
    /\ TypeOK
    /\ released <= received
    /\ arrived <= released + Window
    /\ up \in {"data", "done"} => received = taken
    /\ up = "release" => received = taken
    /\ shut => fin = "fin" /\ received = arrived /\ up = "done"
    /\ down # "send" => got = fetched
    /\ fetched <= got + ReadChunk
    /\ eof => down \in {"finish", "done"}
    /\ down \in {"finish", "done"} => eof
    /\ finished => down = "done"

LEMMA InvInit == Init => Inv
<1> SUFFICES ASSUME Init PROVE Inv
    OBVIOUS
<1> USE BoundAssumption DEF BoundAssumption
<1>0. 0 \in 0 .. 0 /\ 0 \in 0 .. MaxUp /\ 0 \in 0 .. MaxDown
    OBVIOUS
<1>1. TypeOK
    BY <1>0, Zenon DEF Init, TypeOK
<1>2. ~shut /\ ~eof /\ ~finished
    BY DEF Init
<1> QED
    BY <1>1, <1>2 DEF Init, Inv

LEMMA InvNext == Inv /\ [Next]_vars => Inv'
<1> SUFFICES ASSUME Inv, [Next]_vars PROVE Inv'
    OBVIOUS
<1> USE BoundAssumption DEF BoundAssumption
<1>1. ASSUME NEW n \in 1 .. Window, ClientData(n) PROVE Inv'
    BY <1>1 DEF Inv, TypeOK, ClientData, Live, upVars, downVars
<1>2. CASE ClientEnds
    BY <1>2 DEF Inv, TypeOK, ClientEnds, Live, upVars, downVars
<1>3. CASE ClientGrants
    BY <1>3 DEF Inv, TypeOK, ClientGrants, Live, upVars, downVars
<1>4. CASE Connected
    BY <1>4 DEF Inv, TypeOK, Connected, upVars, downVars
<1>5. CASE Data
    BY <1>5 DEF Inv, TypeOK, Data, downVars
<1>6. CASE Write
    BY <1>6 DEF Inv, TypeOK, Write, downVars
<1>7. CASE Release
    BY <1>7 DEF Inv, TypeOK, Release, downVars
<1>8. CASE Shutdown
    BY <1>8 DEF Inv, TypeOK, Shutdown, downVars
<1>9. CASE Send
    BY <1>9 DEF Inv, TypeOK, Send, upVars
<1>10. CASE SendEnd
    BY <1>10 DEF Inv, TypeOK, SendEnd, upVars
<1>11. CASE Joined
    BY <1>11 DEF Inv, TypeOK, Joined, upVars, downVars
<1>12. ASSUME NEW n \in 0 .. ReadChunk, Read(n) PROVE Inv'
    <2>1. eof' \in BOOLEAN /\ (eof' <=> n = 0)
        BY <1>12 DEF Read
    <2> QED
        BY <1>12, <2>1 DEF Inv, TypeOK, Read, upVars
<1>13. CASE Fails
    BY <1>13 DEF Inv, TypeOK, Fails, downVars
<1>14. CASE UNCHANGED vars
    BY <1>14 DEF Inv, TypeOK, vars, upVars, downVars
<1> QED
    BY <1>1, <1>2, <1>3, <1>4, <1>5, <1>6, <1>7, <1>8, <1>9, <1>10, <1>11, <1>12,
       <1>13, <1>14 DEF Next, Task

\* Offsets never overtake the ones they follow, in every reachable state of
\* serve's two loops.
THEOREM TypeCorrect == Spec => []TypeOK
<1>1. Spec => []Inv
    BY InvInit, InvNext, PTL DEF Spec
<1>2. Inv => TypeOK
    BY DEF Inv
<1> QED
    BY <1>1, <1>2, PTL

-----------------------------------------------------------------------------
\* Every step of the relay is a step of the upload pipe or changes nothing in it.
LEMMA UpStep == Inv /\ [Next]_vars => [Up!Next]_(Up!vars)
<1> SUFFICES ASSUME Inv, [Next]_vars PROVE [Up!Next]_(Up!vars)
    OBVIOUS
<1> USE BoundAssumption DEF BoundAssumption
<1> USE DEF Up!Next, Up!vars
<1>1. ASSUME NEW n \in 1 .. Window, ClientData(n) PROVE Up!Send
    BY <1>1 DEF Inv, TypeOK, ClientData, Up!Send, upVars
<1>2. CASE ClientEnds
    <2>1. CASE fin' = "fin"
        BY <1>2, <2>1 DEF ClientEnds, upVars, Up!End
    <2>2. CASE fin' = "reset"
        BY <1>2, <2>2 DEF ClientEnds, upVars
    <2> QED
        BY <1>2, <2>1, <2>2 DEF ClientEnds
<1>3. CASE Write
    <2>1. CASE received = taken
        BY <1>3, <2>1 DEF Write
    <2>2. CASE received # taken
        <3>1. taken \in (received + 1) .. arrived
            BY <2>2 DEF Inv, TypeOK
        <3>2. ~shut
            BY <1>3 DEF Inv, Write
        <3> QED
            BY <1>3, <3>1, <3>2 DEF Write, Up!Deliver
    <2> QED
        BY <2>1, <2>2
<1>4. CASE Shutdown
    BY <1>4 DEF Inv, Shutdown, Up!Close
<1>5. CASE Fails
    <2>1. CASE received' = received
        BY <1>5, <2>1 DEF Fails
    <2>2. CASE received' # received
        <3>1. received' \in (received + 1) .. arrived
            BY <1>5, <2>2 DEF Inv, TypeOK, Fails
        <3>2. ~shut
            BY <1>5, <2>2 DEF Inv, TypeOK, Fails
        <3> QED
            BY <1>5, <3>1, <3>2 DEF Fails, Up!Deliver
    <2> QED
        BY <2>1, <2>2
<1>6. CASE Data \/ Release \/ Connected \/ Joined \/ ClientGrants
    BY <1>6 DEF Data, Release, Connected, Joined, ClientGrants, upVars
<1>7. CASE Send \/ SendEnd \/ UNCHANGED vars
    BY <1>7 DEF Send, SendEnd, vars, upVars
<1>8. ASSUME NEW n \in 0 .. ReadChunk, Read(n) PROVE UNCHANGED Up!vars
    BY <1>8 DEF Read, upVars
<1> QED
    BY <1>1, <1>2, <1>3, <1>4, <1>5, <1>6, <1>7, <1>8 DEF Next, Task

\* What serve writes to the target is the client's stream: in order, without
\* loss, at most one window behind, and shut down only behind its last byte.
THEOREM UploadRefines == Spec => UploadIsPipe
<1>1. Init => Up!Init
    BY DEF Init, Up!Init
<1>2. Spec => []Inv
    BY InvInit, InvNext, PTL DEF Spec
<1> QED
    BY <1>1, <1>2, UpStep, PTL DEF Spec, UploadIsPipe, Up!Spec

-----------------------------------------------------------------------------
\* Every step of the relay is a step of the download pipe or changes nothing in
\* it.
LEMMA DownStep == Inv /\ [Next]_vars => [Down!Next]_(Down!vars)
<1> SUFFICES ASSUME Inv, [Next]_vars PROVE [Down!Next]_(Down!vars)
    OBVIOUS
<1> USE BoundAssumption DEF BoundAssumption
<1> USE DEF Down!Next, Down!vars
<1>1. ASSUME NEW n \in 0 .. ReadChunk, Read(n) PROVE Down!Send \/ Down!End
    <2>1. CASE n = 0
        <3>1. eof' = TRUE
            BY <1>1, <2>1, Zenon DEF Read
        <3>2. fetched' = fetched
            BY <1>1, <2>1 DEF Inv, TypeOK, Read
        <3> QED
            BY <1>1, <3>1, <3>2 DEF Read, Down!End
    <2>2. CASE n # 0
        <3>1. fetched + n \in (fetched + 1) .. (got + ReadChunk)
            BY <1>1, <2>2 DEF Inv, TypeOK, Read
        <3>2. eof' = eof /\ ~eof
            BY <1>1, <2>2 DEF Inv, TypeOK, Read
        <3> QED
            BY <1>1, <3>1, <3>2 DEF Read, Down!Send
    <2> QED
        BY <2>1, <2>2
<1>2. CASE Send
    <2>1. CASE got' = got
        BY <1>2, <2>1 DEF Send
    <2>2. CASE got' # got
        <3>1. got' \in (got + 1) .. fetched
            BY <1>2, <2>2 DEF Inv, TypeOK, Send
        <3>2. ~finished
            BY <1>2 DEF Inv, Send
        <3> QED
            BY <1>2, <3>1, <3>2 DEF Send, Down!Deliver
    <2> QED
        BY <2>1, <2>2
<1>3. CASE SendEnd
    BY <1>3 DEF Inv, SendEnd, Down!Close
<1>4. CASE Data \/ Write \/ Release \/ Shutdown \/ Connected \/ Joined \/ Fails
    BY <1>4 DEF Data, Write, Release, Shutdown, Connected, Joined, Fails, downVars
<1>5. CASE ClientEnds \/ ClientGrants \/ UNCHANGED vars
    BY <1>5 DEF ClientEnds, ClientGrants, vars, downVars
<1>6. ASSUME NEW n \in 1 .. Window, ClientData(n) PROVE UNCHANGED Down!vars
    BY <1>6 DEF ClientData, downVars
<1> QED
    BY <1>1, <1>2, <1>3, <1>4, <1>5, <1>6 DEF Next, Task

\* What serve sends to the client is the target's stream: in order, without
\* loss, at most one read buffer behind, and ended only behind its last byte.
THEOREM DownloadRefines == Spec => DownloadIsPipe
<1>1. Init => Down!Init
    BY DEF Init, Down!Init
<1>2. Spec => []Inv
    BY InvInit, InvNext, PTL DEF Spec
<1> QED
    BY <1>1, <1>2, DownStep, PTL DEF Spec, DownloadIsPipe, Down!Spec
=============================================================================
