--------------------------- MODULE Detection_proofs ---------------------------
(***************************************************************************)
(* What detection promises, for any addresses, tokens and incidents, any   *)
(* number of goroutines, and any limits: request windows, session windows, *)
(* correlation and response, each by an inductive invariant of its own.    *)
(* The response's is in IncidentResponse_proofs.                           *)
(***************************************************************************)
EXTENDS Detection, Sequences, FiniteSetTheorems, TLAPS

-----------------------------------------------------------------------------
(* A component instantiates the modules it extends: its sizes of sets are  *)
(* sizes of sets.                                                          *)
LEMMA WindowCardinality == \A S : Windows!Cardinality(S) = Cardinality(S)
BY DEF Windows!Cardinality, Cardinality

LEMMA SessionCardinality ==
  \A S : /\ Sessions!Cardinality(S) = Cardinality(S)
         /\ Sessions!IsFiniteSet(S) <=> IsFiniteSet(S)
BY DEF Sessions!Cardinality, Sessions!IsFiniteSet, Cardinality, IsFiniteSet

LEMMA CorrelationCardinality ==
  \A S : /\ Correlation!Cardinality(S) = Cardinality(S)
         /\ Correlation!IsFiniteSet(S) <=> IsFiniteSet(S)
BY DEF Correlation!Cardinality, Correlation!IsFiniteSet, Cardinality, IsFiniteSet

-----------------------------------------------------------------------------
(* A goroutine that is about to append has a window of its client.  The    *)
(* windows of the map are windows of their clients.                        *)
WindowsFit ==
  /\ \A c \in Client : clientWindow[c] # Nothing =>
       clientWindow[c] \in Windows!Window /\ clientWindow[c][2] = c
  /\ \A g \in Goroutine : ingestAt[g] # "idle" => ingestEntry[g] \in Windows!Entry
  /\ \A g \in Goroutine : ingestAt[g] = "append" =>
       ingestWindow[g] \in Windows!Window /\ ingestWindow[g][2] = ingestEntry[g].client

(* A client no two of whose first requests overlapped: whoever is about to *)
(* store a window is alone, and whoever has one has the one in the map.    *)
WindowsAgree ==
  \A c \in Client \ racedClients : \A g \in Windows!Serving(c) :
    /\ ingestAt[g] = "store" => clientWindow[c] = Nothing /\ Windows!Serving(c) = {g}
    /\ ingestAt[g] = "append" => ingestWindow[g] = clientWindow[c]

HeldIsFinite == \A c \in Client : IsFiniteSet(Windows!Held(c))

WindowInv ==
  /\ Windows!TypeOK /\ WindowsFit /\ WindowsAgree /\ HeldIsFinite
  /\ Windows!ViolationsAreEarned /\ Windows!SettledWindowsAreClean /\ Windows!OneWindowPerClient

LEMMA WindowInit ==
  ASSUME Windows!SizeAssumption PROVE Windows!Init => WindowInv
<1> SUFFICES ASSUME Windows!Init PROVE WindowInv
  OBVIOUS
<1>1. Windows!TypeOK
  BY DEF Windows!Init, Windows!TypeOK, Windows!SizeAssumption, Windows!Window
<1>2. WindowsFit /\ WindowsAgree
  BY DEF Windows!Init, WindowsFit, WindowsAgree, Windows!Serving
<1>3. ASSUME NEW c \in Client
      PROVE  Windows!Held(c) = {}
  BY DEF Windows!Init, Windows!Held, Windows!Window
<1>4. HeldIsFinite /\ Windows!ViolationsAreEarned
  <2>1. IsFiniteSet({}) /\ Cardinality({}) = 0
    BY FS_EmptySet
  <2>2. ASSUME NEW c \in Client
        PROVE  MinLength * violations[c] + Cardinality(Windows!Held(c)) <= received[c]
    <3>1. violations[c] = 0 /\ received[c] = 0 /\ MinLength \in Nat
      BY DEF Windows!Init, Windows!SizeAssumption
    <3>2. Cardinality(Windows!Held(c)) = 0
      BY <1>3, <2>1
    <3> QED
      BY <3>1, <3>2
  <2> QED
    BY <1>3, <2>1, <2>2, WindowCardinality DEF HeldIsFinite, Windows!ViolationsAreEarned
<1>5. Windows!SettledWindowsAreClean
  BY DEF Windows!Init, Windows!SettledWindowsAreClean, Windows!Suspicious, Windows!SizeAssumption
<1>6. Windows!OneWindowPerClient
  BY DEF Windows!Init, Windows!OneWindowPerClient, Windows!Window
<1> QED
  BY <1>1, <1>2, <1>4, <1>5, <1>6 DEF WindowInv

(* What a step leaves alone that neither appends nor evaluates. *)
LEMMA WindowCountsKept ==
  ASSUME WindowInv, UNCHANGED <<requests, unjudged, received, violations>>
  PROVE  HeldIsFinite' /\ Windows!ViolationsAreEarned' /\ Windows!SettledWindowsAreClean'
<1>1. \A c \in Client : Windows!Held(c)' = Windows!Held(c)
  BY DEF Windows!Held
<1> QED
  BY <1>1, WindowCardinality
  DEF WindowInv, HeldIsFinite, Windows!ViolationsAreEarned, Windows!SettledWindowsAreClean

LEMMA ReceiveKeeps ==
  ASSUME Windows!SizeAssumption, WindowInv, NEW g \in Goroutine, NEW c \in Client,
           NEW r \in Request,
         Windows!Receive(g, c, r)
  PROVE  WindowInv'
<1>1. /\ ingestAt[g] = "idle"
      /\ ingestEntry' = [ingestEntry EXCEPT ![g] = [client |-> c, request |-> r]]
      /\ ingestWindow' = [ingestWindow EXCEPT ![g] = clientWindow[c]]
      /\ ingestAt' = [ingestAt EXCEPT ![g] = IF clientWindow[c] = Nothing THEN "store"
           ELSE "append"]
      /\ racedClients' = IF clientWindow[c] = Nothing /\ Windows!Serving(c) # {}
           THEN racedClients \cup {c} ELSE racedClients
      /\ UNCHANGED <<clientWindow, requests, unjudged, indicators, received, violations>>
  BY WindowCardinality DEF Windows!Receive
<1>2. [client |-> c, request |-> r] \in Windows!Entry
  BY DEF Windows!Entry
<1>3. Windows!TypeOK'
  BY <1>1, <1>2 DEF WindowInv, Windows!TypeOK
<1>4. WindowsFit'
  BY <1>1, <1>2 DEF WindowInv, Windows!TypeOK, WindowsFit
<1>5. WindowsAgree'
  <2> SUFFICES ASSUME NEW d \in Client \ racedClients', NEW k \in Windows!Serving(d)'
               PROVE  /\ ingestAt'[k] = "store" =>
                           clientWindow'[d] = Nothing /\ Windows!Serving(d)' = {k}
                      /\ ingestAt'[k] = "append" => ingestWindow'[k] = clientWindow'[d]
    BY DEF WindowsAgree
  <2>0. /\ ingestAt'[g] = IF clientWindow[c] = Nothing THEN "store" ELSE "append"
        /\ ingestEntry'[g].client = c /\ ingestWindow'[g] = clientWindow[c]
        /\ \A h \in Goroutine \ {g} :
             ingestAt'[h] = ingestAt[h] /\ ingestEntry'[h] = ingestEntry[h] /\
               ingestWindow'[h] = ingestWindow[h]
    BY <1>1 DEF WindowInv, Windows!TypeOK
  <2>1. CASE d = c
    <3>1. clientWindow[c] = Nothing => Windows!Serving(c) = {}
      BY <1>1, <2>0, <2>1
    <3>2. Windows!Serving(c)' = Windows!Serving(c) \cup {g}
      BY <1>1, <2>0 DEF Windows!Serving
    <3>3. c \in Client \ racedClients
      BY <1>1, <2>1
    <3>4. CASE clientWindow[c] = Nothing
      <4>1. k = g /\ Windows!Serving(c)' = {g} /\ ingestAt'[g] = "store" /\
              clientWindow'[c] = Nothing
        BY <1>1, <2>0, <2>1, <3>1, <3>2, <3>4
      <4> QED
        BY <2>1, <4>1
    <3>5. CASE clientWindow[c] # Nothing
      <4>1. ingestAt'[g] = "append" /\ ingestWindow'[g] = clientWindow'[c] /\
              clientWindow' = clientWindow
        BY <1>1, <2>0, <3>5
      <4>2. CASE k = g
        BY <2>1, <4>1, <4>2
      <4>3. CASE k # g
        <5>1. k \in Windows!Serving(c) /\ k \in Goroutine
          BY <2>1, <3>2, <4>3 DEF Windows!Serving
        <5>2. ingestAt[k] # "store" /\ (ingestAt[k] = "append" => ingestWindow[k] = clientWindow[c])
          BY <3>3, <3>5, <5>1 DEF WindowInv, WindowsAgree
        <5>3. ingestAt'[k] = ingestAt[k] /\ ingestWindow'[k] = ingestWindow[k]
          BY <2>0, <4>3, <5>1
        <5> QED
          BY <2>1, <4>1, <5>2, <5>3
      <4> QED
        BY <4>2, <4>3
    <3> QED
      BY <3>4, <3>5
  <2>2. CASE d # c
    <3>1. Windows!Serving(d)' = Windows!Serving(d) /\ g \notin Windows!Serving(d) /\
            d \in Client \ racedClients
      BY <1>1, <2>0, <2>2 DEF Windows!Serving
    <3>2. ingestAt'[k] = ingestAt[k] /\ ingestWindow'[k] = ingestWindow[k]
      BY <2>0, <3>1 DEF Windows!Serving
    <3> QED
      BY <1>1, <3>1, <3>2 DEF WindowInv, WindowsAgree
  <2> QED
    BY <2>1, <2>2
<1>6. Windows!OneWindowPerClient'
  BY <1>1 DEF WindowInv, Windows!OneWindowPerClient
<1> QED
  BY <1>1, <1>3, <1>4, <1>5, <1>6, WindowCountsKept DEF WindowInv

LEMMA WindowStoreKeeps ==
  ASSUME Windows!SizeAssumption, WindowInv, NEW g \in Goroutine, Windows!StoreWindow(g)
  PROVE  WindowInv'
<1> DEFINE c == ingestEntry[g].client
<1>1. /\ ingestAt[g] = "store"
      /\ ingestAt' = [ingestAt EXCEPT ![g] = "append"]
      /\ ingestWindow' = [ingestWindow EXCEPT ![g] = <<g, c>>]
      /\ clientWindow' = [clientWindow EXCEPT ![c] = ingestWindow'[g]]
      /\ UNCHANGED <<requests, unjudged, ingestEntry, indicators, received, violations,
           racedClients>>
  BY DEF Windows!StoreWindow
<1>2. ingestEntry[g] \in Windows!Entry /\ c \in Client /\ <<g, c>> \in Windows!Window /\
        ingestWindow'[g] = <<g, c>>
  BY <1>1 DEF WindowInv, Windows!TypeOK, WindowsFit, Windows!Entry, Windows!Window
<1>3. ingestEntry[g].client = c
  OBVIOUS
<1> HIDE DEF c
<1>0. /\ ingestAt'[g] = "append" /\ ingestEntry'[g] = ingestEntry[g] /\ clientWindow'[c] = <<g, c>>
      /\ \A h \in Goroutine \ {g} :
           ingestAt'[h] = ingestAt[h] /\ ingestEntry'[h] = ingestEntry[h] /\
             ingestWindow'[h] = ingestWindow[h]
      /\ \A d \in Client \ {c} : clientWindow'[d] = clientWindow[d]
  BY <1>1, <1>2 DEF WindowInv, Windows!TypeOK
<1>4. Windows!TypeOK'
  BY <1>1, <1>2 DEF WindowInv, Windows!TypeOK
<1>5. WindowsFit'
  <2>1. \A d \in Client : clientWindow'[d] # Nothing =>
          clientWindow'[d] \in Windows!Window /\ clientWindow'[d][2] = d
    BY <1>0, <1>2 DEF WindowInv, WindowsFit
  <2>2. \A h \in Goroutine : ingestAt'[h] # "idle" => ingestEntry'[h] \in Windows!Entry
    BY <1>0, <1>1, <1>2 DEF WindowInv, WindowsFit
  <2>3. \A h \in Goroutine : ingestAt'[h] = "append" =>
          ingestWindow'[h] \in Windows!Window /\ ingestWindow'[h][2] = ingestEntry'[h].client
    BY <1>0, <1>2, <1>3 DEF WindowInv, WindowsFit
  <2> QED
    BY <2>1, <2>2, <2>3 DEF WindowsFit
<1>6. WindowsAgree' /\ Windows!OneWindowPerClient'
  <2>1. CASE c \in racedClients
    <3>1. ASSUME NEW d \in Client \ racedClients
          PROVE  clientWindow'[d] = clientWindow[d] /\ Windows!Serving(d)' = Windows!Serving(d)
      BY <1>0, <1>1, <1>3, <2>1, <3>1 DEF Windows!Serving, WindowInv, Windows!TypeOK
    <3>2. Windows!OneWindowPerClient'
      BY <1>1, <3>1 DEF WindowInv, Windows!OneWindowPerClient
    <3>3. ASSUME NEW d \in Client \ racedClients', NEW k \in Windows!Serving(d)'
          PROVE  /\ ingestAt'[k] = "store" =>
                      clientWindow'[d] = Nothing /\ Windows!Serving(d)' = {k}
                 /\ ingestAt'[k] = "append" => ingestWindow'[k] = clientWindow'[d]
      <4>1. d \in Client \ racedClients /\ Windows!Serving(d)' = Windows!Serving(d) /\
              clientWindow'[d] = clientWindow[d]
        BY <1>1, <3>1, <3>3
      <4>2. k # g /\ k \in Goroutine
        BY <1>3, <2>1, <4>1 DEF Windows!Serving
      <4>3. ingestAt'[k] = ingestAt[k] /\ ingestWindow'[k] = ingestWindow[k]
        BY <1>0, <4>2
      <4> QED
        BY <4>1, <4>3 DEF WindowInv, WindowsAgree
    <3> QED
      BY <3>2, <3>3 DEF WindowsAgree
  <2>2. CASE c \notin racedClients
    <3>0. g \in Windows!Serving(c) /\ c \in Client \ racedClients
      BY <1>1, <1>2, <1>3, <2>2 DEF Windows!Serving
    <3>1. clientWindow[c] = Nothing /\ Windows!Serving(c) = {g}
      BY <1>1, <3>0 DEF WindowInv, WindowsAgree
    <3>2. \A d \in Client : Windows!Serving(d)' = Windows!Serving(d)
      BY <1>0, <1>1 DEF Windows!Serving
    <3>4. ASSUME NEW d \in Client \ racedClients', NEW k \in Windows!Serving(d)'
          PROVE  /\ ingestAt'[k] = "store" =>
                      clientWindow'[d] = Nothing /\ Windows!Serving(d)' = {k}
                 /\ ingestAt'[k] = "append" => ingestWindow'[k] = clientWindow'[d]
      <4>1. CASE d = c
        <5>1. k = g
          BY <3>1, <3>2, <4>1
        <5> QED
          BY <1>0, <1>2, <4>1, <5>1
      <4>2. CASE d # c
        <5>1. k # g /\ k \in Goroutine /\ k \in Windows!Serving(d) /\ d \in Client \ racedClients
          BY <1>1, <1>3, <3>2, <4>2 DEF Windows!Serving
        <5>2. ingestAt'[k] = ingestAt[k] /\ ingestWindow'[k] = ingestWindow[k] /\
                clientWindow'[d] = clientWindow[d]
          BY <1>0, <4>2, <5>1
        <5> QED
          BY <3>2, <5>1, <5>2 DEF WindowInv, WindowsAgree
      <4> QED
        BY <4>1, <4>2
    <3>5. ASSUME NEW h \in Goroutine, NEW d \in Client \ racedClients', requests'[<<h, d>>] # <<>>
          PROVE  clientWindow'[d] = <<h, d>>
      <4>1. clientWindow[d] = <<h, d>> /\ <<h, d>> \in Windows!Window
        BY <1>1, <3>5 DEF WindowInv, Windows!OneWindowPerClient, Windows!Window
      <4>2. CASE d = c
        BY <3>1, <4>1, <4>2 DEF Windows!SizeAssumption, Windows!Window
      <4>3. CASE d # c
        BY <1>0, <4>1, <4>3
      <4> QED
        BY <4>2, <4>3
    <3> QED
      BY <3>4, <3>5 DEF WindowsAgree, Windows!OneWindowPerClient
  <2> QED
    BY <2>1, <2>2
<1> QED
  BY <1>1, <1>4, <1>5, <1>6, WindowCountsKept DEF WindowInv

(* A window after a request.                                               *)
LEMMA SlideOf ==
  ASSUME Windows!SizeAssumption, NEW reqs \in Seq(Request), Len(reqs) <= WindowSize,
         NEW r \in Request
  PROVE  LET new == Windows!Slide(Append(reqs, r))
         IN  /\ new \in Seq(Request)
             /\ Len(new) = IF Len(reqs) < WindowSize THEN Len(reqs) + 1 ELSE WindowSize
             /\ DOMAIN new = 1..Len(new)
<1> DEFINE long == Append(reqs, r)
<1>1. long \in Seq(Request) /\ Len(long) = Len(reqs) + 1 /\ Len(reqs) \in Nat
  OBVIOUS
<1> HIDE DEF long
<1>2. long # <<>>
  BY <1>1
<1>3. Tail(long) \in Seq(Request) /\ Len(Tail(long)) = Len(long) - 1
  BY <1>1, <1>2
<1>4. WindowSize \in Nat
  BY DEF Windows!SizeAssumption
<1>5. /\ Windows!Slide(long) \in Seq(Request)
      /\ Len(Windows!Slide(long)) = IF Len(reqs) < WindowSize THEN Len(reqs) + 1 ELSE WindowSize
  BY <1>1, <1>3, <1>4 DEF Windows!Slide
<1>6. DOMAIN Windows!Slide(long) = 1..Len(Windows!Slide(long))
  BY <1>5
<1> QED
  BY <1>5, <1>6 DEF long

LEMMA AppendKeeps ==
  ASSUME Windows!SizeAssumption, WindowInv, NEW g \in Goroutine, Windows!AppendRequest(g)
  PROVE  WindowInv'
<1>0. PICK x, c : x = ingestWindow[g] /\ c = ingestEntry[g].client
  OBVIOUS
<1> DEFINE new == Windows!Slide(Append(requests[x], ingestEntry[g].request))
<1>1. /\ ingestAt[g] = "append"
      /\ ingestAt' = [ingestAt EXCEPT ![g] = "idle"]
      /\ ingestEntry' = [ingestEntry EXCEPT ![g] = Nothing]
      /\ ingestWindow' = [ingestWindow EXCEPT ![g] = Nothing]
      /\ requests' = [requests EXCEPT ![x] = new]
      /\ unjudged' = [unjudged EXCEPT ![x] = @ + 1]
      /\ received' = [received EXCEPT ![c] = @ + 1]
      /\ UNCHANGED <<clientWindow, indicators, violations, racedClients>>
  BY <1>0 DEF Windows!AppendRequest, Windows!Rest
<1>2. ingestEntry[g] \in Windows!Entry /\ c \in Client /\ ingestEntry[g].request \in Request
  BY <1>0, <1>1 DEF WindowInv, WindowsFit, Windows!Entry
<1>3. x \in Windows!Window /\ x[2] = c
  BY <1>0, <1>1 DEF WindowInv, WindowsFit
<1>4. requests[x] \in Seq(Request) /\ Len(requests[x]) <= WindowSize /\ Len(requests[x]) \in Nat
  BY <1>3 DEF WindowInv, Windows!TypeOK
<1>5. /\ new \in Seq(Request)
      /\ Len(new) = IF Len(requests[x]) < WindowSize THEN Len(requests[x]) + 1 ELSE WindowSize
      /\ DOMAIN new = 1..Len(new)
  BY <1>2, <1>4, SlideOf
<1>6. c \notin racedClients => x = clientWindow[c]
  BY <1>0, <1>1, <1>2 DEF WindowInv, WindowsAgree, Windows!Serving
<1> HIDE DEF new
<1>8. /\ requests'[x] = new /\ unjudged'[x] = unjudged[x] + 1 /\ received'[c] = received[c] + 1
      /\ \A y \in Windows!Window \ {x} : requests'[y] = requests[y] /\ unjudged'[y] = unjudged[y]
      /\ \A d \in Client \ {c} : received'[d] = received[d]
      /\ \A h \in Goroutine \ {g} :
           ingestAt'[h] = ingestAt[h] /\ ingestEntry'[h] = ingestEntry[h] /\
             ingestWindow'[h] = ingestWindow[h]
      /\ ingestAt'[g] = "idle"
  BY <1>1, <1>2, <1>3 DEF WindowInv, Windows!TypeOK
<1>9. Windows!TypeOK'
  <2>1. \A y \in Windows!Window : Len(requests'[y]) <= WindowSize
    <3>1. Len(requests'[x]) <= WindowSize
      BY <1>4, <1>5, <1>8 DEF Windows!SizeAssumption
    <3>2. \A y \in Windows!Window \ {x} : Len(requests'[y]) <= WindowSize
      BY <1>8 DEF WindowInv, Windows!TypeOK
    <3> QED
      BY <3>1, <3>2
  <2>2. requests' \in [Windows!Window -> Seq(Request)] /\ unjudged' \in [Windows!Window -> Nat]
    BY <1>1, <1>3, <1>5 DEF WindowInv, Windows!TypeOK
  <2> QED
    BY <1>1, <1>2, <2>1, <2>2 DEF WindowInv, Windows!TypeOK
<1>10. WindowsFit'
  BY <1>1, <1>8 DEF WindowInv, WindowsFit
<1>11. WindowsAgree'
  <2> SUFFICES ASSUME NEW d \in Client \ racedClients', NEW k \in Windows!Serving(d)'
               PROVE  /\ ingestAt'[k] = "store" =>
                           clientWindow'[d] = Nothing /\ Windows!Serving(d)' = {k}
                      /\ ingestAt'[k] = "append" => ingestWindow'[k] = clientWindow'[d]
    BY DEF WindowsAgree
  <2>1. k # g /\ k \in Goroutine /\ Windows!Serving(d)' = Windows!Serving(d) \ {g}
    BY <1>8 DEF Windows!Serving
  <2>2. ingestAt'[k] = ingestAt[k] /\ ingestWindow'[k] = ingestWindow[k] /\
          k \in Windows!Serving(d) /\ d \in Client \ racedClients
    BY <1>1, <1>8, <2>1
  <2>3. ingestAt[k] = "store" => Windows!Serving(d) = {k}
    BY <2>2 DEF WindowInv, WindowsAgree
  <2>4. ingestAt[k] = "store" => Windows!Serving(d)' = {k}
    BY <2>1, <2>3
  <2> QED
    BY <1>1, <2>2, <2>4 DEF WindowInv, WindowsAgree
<1>12. Windows!SettledWindowsAreClean'
  <2> SUFFICES ASSUME NEW y \in Windows!Window, unjudged'[y] = 0
               PROVE  ~Windows!Suspicious(requests'[y])
    BY DEF Windows!SettledWindowsAreClean
  <2>1. y # x
    BY <1>3, <1>8 DEF WindowInv, Windows!TypeOK
  <2> QED
    BY <1>8, <2>1 DEF WindowInv, Windows!SettledWindowsAreClean
<1>13. Windows!OneWindowPerClient'
  <2> SUFFICES ASSUME NEW h \in Goroutine, NEW d \in Client \ racedClients,
                        requests'[<<h, d>>] # <<>>
               PROVE  clientWindow[d] = <<h, d>>
    BY <1>1 DEF Windows!OneWindowPerClient
  <2>1. CASE <<h, d>> = x
    BY <1>3, <1>6, <2>1
  <2>2. CASE <<h, d>> # x
    BY <1>8, <2>2 DEF WindowInv, Windows!OneWindowPerClient, Windows!Window
  <2> QED
    BY <2>1, <2>2
<1>14. HeldIsFinite' /\ Windows!ViolationsAreEarned'
  <2>1. PICK w \in Goroutine : x = <<w, c>>
    BY <1>3 DEF Windows!Window
  <2>2. ASSUME NEW d \in Client \ {c}
        PROVE  Windows!Held(d)' = Windows!Held(d)
    <3>1. \A h \in Goroutine : requests'[<<h, d>>] = requests[<<h, d>>]
      BY <1>8, <2>1, <2>2 DEF Windows!Window
    <3> QED
      BY <3>1 DEF Windows!Held
  <2>3. /\ IsFiniteSet(Windows!Held(c)')
        /\ Cardinality(Windows!Held(c)') <= Cardinality(Windows!Held(c)) + 1
    <3>0. PICK top : top = <<w, Len(requests[x]) + 1>>
      OBVIOUS
    <3>1. Windows!Held(c)' \in SUBSET (Windows!Held(c) \cup {top})
      <4> SUFFICES ASSUME NEW h \in Goroutine, NEW n \in 1..WindowSize,
                          n \in DOMAIN requests'[<<h, c>>],
                          <<h, n>> # top
                   PROVE  n \in DOMAIN requests[<<h, c>>]
        BY DEF Windows!Held
      <4>1. CASE h = w
        <5>1. n \in 1..Len(new)
          BY <1>5, <1>8, <2>1, <4>1
        <5>2. n \in 1..Len(requests[x])
          BY <1>4, <1>5, <3>0, <4>1, <5>1 DEF Windows!SizeAssumption
        <5> QED
          BY <1>4, <2>1, <4>1, <5>2
      <4>2. CASE h # w
        BY <1>2, <1>8, <2>1, <4>2 DEF Windows!Window
      <4> QED
        BY <4>1, <4>2
    <3>2. IsFiniteSet(Windows!Held(c))
      BY <1>2 DEF WindowInv, HeldIsFinite
    <3>3. /\ IsFiniteSet(Windows!Held(c) \cup {top})
          /\ Cardinality(Windows!Held(c) \cup {top}) <= Cardinality(Windows!Held(c)) + 1
      <4>1. /\ IsFiniteSet(Windows!Held(c) \cup {top})
            /\ \/ Cardinality(Windows!Held(c) \cup {top}) = Cardinality(Windows!Held(c)) + 1
               \/ Cardinality(Windows!Held(c) \cup {top}) = Cardinality(Windows!Held(c))
        BY <3>2, FS_AddElement
      <4> QED
        BY <3>2, <4>1, FS_CardinalityType
    <3>4. /\ IsFiniteSet(Windows!Held(c)')
          /\ Cardinality(Windows!Held(c)') <= Cardinality(Windows!Held(c) \cup {top})
      BY <3>1, <3>3, FS_Subset
    <3> QED
      BY <3>2, <3>3, <3>4, FS_CardinalityType
  <2>4. HeldIsFinite'
    BY <2>2, <2>3 DEF WindowInv, HeldIsFinite
  <2>5. ASSUME NEW d \in Client
        PROVE  MinLength * violations'[d] + Cardinality(Windows!Held(d)') <= received'[d]
    <3>1. MinLength * violations[d] + Cardinality(Windows!Held(d)) <= received[d]
      BY WindowCardinality DEF WindowInv, Windows!ViolationsAreEarned
    <3>2. CASE d = c
      <4>1. MinLength * violations[c] \in Nat /\ received[c] \in Nat
        BY <1>2 DEF WindowInv, Windows!TypeOK, Windows!SizeAssumption
      <4>2. Cardinality(Windows!Held(c)) \in Nat /\ Cardinality(Windows!Held(c)') \in Nat
        BY <1>2, <2>3, FS_CardinalityType DEF WindowInv, HeldIsFinite
      <4>3. violations'[c] = violations[c] /\ received'[c] = received[c] + 1
        BY <1>1, <1>8
      <4>4. MinLength * violations[c] + Cardinality(Windows!Held(c)') <= received[c] + 1
        BY <2>3, <3>1, <3>2, <4>1, <4>2
      <4> QED
        BY <3>2, <4>3, <4>4
    <3>3. CASE d # c
      BY <1>1, <1>8, <2>2, <3>1, <3>3
    <3> QED
      BY <3>2, <3>3
  <2> QED
    BY <2>4, <2>5, WindowCardinality DEF Windows!ViolationsAreEarned
<1> QED
  BY <1>9, <1>10, <1>11, <1>12, <1>13, <1>14 DEF WindowInv

(* A verdict empties a window that holds at least MinLength requests.      *)
LEMMA EvaluateKeeps ==
  ASSUME Windows!SizeAssumption, WindowInv, NEW x \in Windows!Window, NEW fast \in BOOLEAN,
           Windows!Evaluate(x, fast)
  PROVE  WindowInv'
<1>1. /\ unjudged[x] > 0
      /\ unjudged' = [unjudged EXCEPT ![x] = @ - 1]
      /\ UNCHANGED <<clientWindow, ingestAt, ingestEntry, ingestWindow, indicators, received,
           racedClients>>
  BY DEF Windows!Evaluate, Windows!ingest
<1>2. unjudged' \in [Windows!Window -> Nat]
  BY <1>1 DEF WindowInv, Windows!TypeOK
<1>3. WindowsFit' /\ WindowsAgree'
  BY <1>1 DEF WindowInv, WindowsFit, WindowsAgree, Windows!Serving
<1>4. CASE ~(Windows!Suspicious(requests[x]) \/ (fast /\ Windows!MayBeFast(requests[x])))
  <2>1. UNCHANGED <<requests, violations>>
    BY <1>4 DEF Windows!Evaluate
  <2>2. Windows!TypeOK'
    BY <1>1, <1>2, <2>1 DEF WindowInv, Windows!TypeOK
  <2>3. \A c \in Client : Windows!Held(c)' = Windows!Held(c)
    BY <2>1 DEF Windows!Held
  <2>4. HeldIsFinite' /\ Windows!ViolationsAreEarned' /\ Windows!OneWindowPerClient'
    BY <1>1, <2>1, <2>3, WindowCardinality
    DEF WindowInv, HeldIsFinite, Windows!ViolationsAreEarned, Windows!OneWindowPerClient
  <2>5. Windows!SettledWindowsAreClean'
    BY <1>1, <1>4, <2>1 DEF WindowInv, Windows!TypeOK, Windows!SettledWindowsAreClean
  <2> QED
    BY <1>3, <2>2, <2>4, <2>5 DEF WindowInv
<1>5. CASE Windows!Suspicious(requests[x]) \/ (fast /\ Windows!MayBeFast(requests[x]))
  <2> DEFINE c == x[2]
  <2>1. /\ requests' = [requests EXCEPT ![x] = <<>>]
        /\ violations' = [violations EXCEPT ![c] = @ + 1]
    BY <1>5 DEF Windows!Evaluate
  <2>2. c \in Client /\ x = <<x[1], c>> /\ x[1] \in Goroutine
    BY DEF Windows!Window
  <2>3. requests[x] \in Seq(Request) /\ Len(requests[x]) >= MinLength
    BY <1>5 DEF Windows!Suspicious, Windows!MayBeFast, WindowInv, Windows!TypeOK
  <2> HIDE DEF c
  <2>4. /\ requests'[x] = <<>>
        /\ violations'[c] = violations[c] + 1
        /\ \A y \in Windows!Window \ {x} : requests'[y] = requests[y] /\ unjudged'[y] = unjudged[y]
        /\ \A d \in Client \ {c} : violations'[d] = violations[d]
    BY <1>1, <2>1, <2>2 DEF WindowInv, Windows!TypeOK
  <2>5. Windows!TypeOK'
    <3>1. requests' \in [Windows!Window -> Seq(Request)]
      BY <2>1 DEF WindowInv, Windows!TypeOK
    <3>2. \A y \in Windows!Window : Len(requests'[y]) <= WindowSize
      <4>1. Len(<<>>) = 0 /\ WindowSize \in Nat /\ 0 <= WindowSize
        BY DEF Windows!SizeAssumption
      <4>2. \A y \in Windows!Window \ {x} : Len(requests'[y]) <= WindowSize
        BY <2>4 DEF WindowInv, Windows!TypeOK
      <4>3. Len(requests'[x]) <= WindowSize
        BY <2>4, <4>1
      <4> QED
        BY <4>2, <4>3
    <3>3. violations' \in [Client -> Nat]
      BY <2>1, <2>2 DEF WindowInv, Windows!TypeOK
    <3> QED
      BY <1>1, <1>2, <3>1, <3>2, <3>3 DEF WindowInv, Windows!TypeOK
  <2>6. Windows!SettledWindowsAreClean'
    <3>1. ~Windows!Suspicious(<<>>)
      BY DEF Windows!Suspicious, Windows!SizeAssumption
    <3>2. ASSUME NEW y \in Windows!Window, unjudged'[y] = 0
          PROVE  ~Windows!Suspicious(requests'[y])
      BY <2>4, <3>1, <3>2 DEF WindowInv, Windows!SettledWindowsAreClean
    <3> QED
      BY <3>2 DEF Windows!SettledWindowsAreClean
  <2>7. Windows!OneWindowPerClient'
    <3> SUFFICES ASSUME NEW h \in Goroutine, NEW d \in Client \ racedClients,
                          requests'[<<h, d>>] # <<>>
                 PROVE  clientWindow[d] = <<h, d>>
      BY <1>1 DEF Windows!OneWindowPerClient
    <3> QED
      BY <2>4 DEF WindowInv, Windows!OneWindowPerClient, Windows!Window
  <2>8. ASSUME NEW d \in Client \ {c}
        PROVE  Windows!Held(d)' = Windows!Held(d)
    <3>1. \A h \in Goroutine : requests'[<<h, d>>] = requests[<<h, d>>]
      BY <2>2, <2>4, <2>8 DEF Windows!Window
    <3> QED
      BY <3>1 DEF Windows!Held
  <2>9. /\ IsFiniteSet(Windows!Held(c)')
        /\ Cardinality(Windows!Held(c)') + MinLength <= Cardinality(Windows!Held(c))
    <3> DEFINE gone == {x[1]} \X (1..Len(requests[x]))
    <3>1. gone \subseteq Windows!Held(c)
      <4>1. DOMAIN requests[x] = 1..Len(requests[x])
        BY <2>3
      <4>2. \A n \in 1..Len(requests[x]) : n \in 1..WindowSize
        BY <2>3 DEF WindowInv, Windows!TypeOK, Windows!SizeAssumption
      <4> QED
        BY <2>2, <4>1, <4>2 DEF Windows!Held
    <3>2. Windows!Held(c)' = Windows!Held(c) \ gone
      <4>1. \A h \in Goroutine : requests'[<<h, c>>] = IF h = x[1] THEN <<>> ELSE requests[<<h, c>>]
        BY <2>2, <2>4 DEF Windows!Window
      <4>2. DOMAIN requests[x] = 1..Len(requests[x]) /\ DOMAIN <<>> = {}
        BY <2>3
      <4> QED
        BY <2>2, <4>1, <4>2 DEF Windows!Held
    <3>3. /\ IsFiniteSet(gone)
          /\ Cardinality(gone) = Len(requests[x])
      <4>1. IsFiniteSet({x[1]}) /\ Cardinality({x[1]}) = 1
        BY FS_Singleton
      <4>2. Len(requests[x]) \in Nat
        BY <2>3
      <4>3. IsFiniteSet(1..Len(requests[x])) /\ Cardinality(1..Len(requests[x])) = Len(requests[x])
        BY <4>2, FS_Interval
      <4> DEFINE one == {x[1]}
                 all == 1..Len(requests[x])
      <4> HIDE DEF one, all
      <4>4. IsFiniteSet(one \X all) /\ Cardinality(one \X all) = Cardinality(one) * Cardinality(all)
        BY <4>1, <4>3, FS_Product DEF one, all
      <4>5. Cardinality(one \X all) = Len(requests[x])
        BY <4>1, <4>2, <4>3, <4>4 DEF one, all
      <4> QED
        BY <4>4, <4>5 DEF one, all
    <3>4. IsFiniteSet(Windows!Held(c))
      BY <2>2 DEF WindowInv, HeldIsFinite
    <3>5. Windows!Held(c) \cap gone = gone
      BY <3>1
    <3> HIDE DEF gone
    <3>6. /\ IsFiniteSet(Windows!Held(c)')
          /\ Cardinality(Windows!Held(c)') = Cardinality(Windows!Held(c)) - Cardinality(gone)
      BY <3>2, <3>4, <3>5, FS_Difference
    <3> QED
      BY <2>3, <3>3, <3>4, <3>6, FS_CardinalityType DEF Windows!SizeAssumption
  <2>10. HeldIsFinite'
    BY <2>8, <2>9 DEF WindowInv, HeldIsFinite
  <2>11. ASSUME NEW d \in Client
        PROVE  MinLength * violations'[d] + Cardinality(Windows!Held(d)') <= received[d]
    <3>1. MinLength * violations[d] + Cardinality(Windows!Held(d)) <= received[d]
      BY WindowCardinality DEF WindowInv, Windows!ViolationsAreEarned
    <3>2. CASE d = c
      <4>1. violations[c] \in Nat /\ received[c] \in Nat /\ MinLength \in Nat
        BY <2>2 DEF WindowInv, Windows!TypeOK, Windows!SizeAssumption
      <4>2. MinLength * (violations[c] + 1) = MinLength * violations[c] + MinLength
        BY <4>1
      <4>3. Cardinality(Windows!Held(c)) \in Nat /\ Cardinality(Windows!Held(c)') \in Nat
        BY <2>2, <2>9, FS_CardinalityType DEF WindowInv, HeldIsFinite
      <4>4. MinLength * violations[c] \in Nat
        BY <4>1
      <4>5. MinLength * violations'[c] = MinLength * violations[c] + MinLength
        BY <2>4, <4>2
      <4>6. \A p, m, old, new, r \in Nat : p + old <= r /\ new + m <= old => p + m + new <= r
        OBVIOUS
      <4>7. MinLength * violations[c] + MinLength + Cardinality(Windows!Held(c)') <= received[c]
        BY <2>9, <3>1, <3>2, <4>1, <4>3, <4>4, <4>6
      <4> QED
        BY <3>2, <4>5, <4>7
    <3>3. CASE d # c
      BY <2>4, <2>8, <3>1, <3>3
    <3> QED
      BY <3>2, <3>3
  <2>12. Windows!ViolationsAreEarned'
    BY <1>1, <2>11, WindowCardinality DEF Windows!ViolationsAreEarned
  <2> QED
    BY <1>3, <2>5, <2>6, <2>7, <2>10, <2>12 DEF WindowInv
<1> QED
  BY <1>4, <1>5

(* The end of the process: no window, nobody at work.                      *)
LEMMA WindowsEnd ==
  ASSUME Windows!SizeAssumption, WindowInv, Windows!ProcessEnds
  PROVE  WindowInv'
<1>1. Windows!TypeOK'
  BY DEF Windows!ProcessEnds, WindowInv, Windows!TypeOK, Windows!SizeAssumption, Windows!Window
<1>2. WindowsFit' /\ WindowsAgree'
  BY DEF Windows!ProcessEnds, WindowsFit, WindowsAgree, Windows!Serving
<1>3. ASSUME NEW c \in Client
      PROVE  Windows!Held(c)' = {}
  BY DEF Windows!ProcessEnds, Windows!Held, Windows!Window
<1>4. IsFiniteSet({}) /\ Cardinality({}) = 0
  BY FS_EmptySet
<1>5. HeldIsFinite'
  BY <1>3, <1>4 DEF HeldIsFinite
<1>6. Windows!ViolationsAreEarned'
  <2> SUFFICES ASSUME NEW c \in Client
               PROVE  MinLength * violations[c] + Cardinality(Windows!Held(c)') <= received[c]
    BY WindowCardinality DEF Windows!ProcessEnds, Windows!ViolationsAreEarned
  <2>1. PICK m \in Nat : m = MinLength * violations[c]
    BY DEF Windows!SizeAssumption, WindowInv, Windows!TypeOK
  <2>2. Cardinality(Windows!Held(c)) \in Nat /\ received[c] \in Nat
    BY FS_CardinalityType DEF WindowInv, HeldIsFinite, Windows!TypeOK
  <2>3. m + Cardinality(Windows!Held(c)) <= received[c]
    BY <2>1, WindowCardinality DEF WindowInv, Windows!ViolationsAreEarned
  <2>4. Cardinality(Windows!Held(c)') = 0
    BY <1>3, <1>4
  <2> QED
    BY <2>1, <2>2, <2>3, <2>4
<1>7. Windows!SettledWindowsAreClean'
  BY
  DEF Windows!ProcessEnds, Windows!SettledWindowsAreClean, Windows!Suspicious,
      Windows!SizeAssumption
<1>8. Windows!OneWindowPerClient'
  BY DEF Windows!ProcessEnds, Windows!OneWindowPerClient, Windows!Window
<1> QED
  BY <1>1, <1>2, <1>5, <1>6, <1>7, <1>8 DEF WindowInv

LEMMA WindowStep ==
  ASSUME Windows!SizeAssumption PROVE WindowInv /\ [Windows!Next]_(Windows!vars) => WindowInv'
<1> SUFFICES ASSUME WindowInv, [Windows!Next]_(Windows!vars) PROVE WindowInv'
  OBVIOUS
<1>1. CASE UNCHANGED Windows!vars
  <2>1. UNCHANGED <<clientWindow, requests, unjudged, ingestAt, ingestEntry, ingestWindow,
          indicators,
                    received, violations, racedClients>>
    BY <1>1 DEF Windows!vars, Windows!ingest
  <2>2. Windows!TypeOK' /\ WindowsFit' /\ WindowsAgree' /\ Windows!OneWindowPerClient'
    BY <2>1
    DEF WindowInv, Windows!TypeOK, WindowsFit, WindowsAgree, Windows!OneWindowPerClient,
        Windows!Serving
  <2> QED
    BY <2>1, <2>2, WindowCountsKept DEF WindowInv
<1> QED
  BY <1>1, ReceiveKeeps, WindowStoreKeeps, AppendKeeps, EvaluateKeeps, WindowsEnd
  DEF Windows!Next, Windows!Continue, Windows!Judge

-----------------------------------------------------------------------------
(* Sessions.  A goroutine that is about to add an address has a window of  *)
(* its token.  The windows of the map are windows of their tokens.         *)
SessionsFit ==
  /\ \A t \in Token : tokenWindow[t] # Nothing =>
       tokenWindow[t] \in Sessions!Window /\ tokenWindow[t][2] = t
  /\ \A g \in Goroutine : evalAt[g] # "idle" => evalUse[g] \in Sessions!Use
  /\ \A g \in Goroutine : evalAt[g] = "add" =>
       evalWindow[g] \in Sessions!Window /\ evalWindow[g][2] = evalUse[g].token

SessionSizes ==
  /\ \A t \in Token : IsFiniteSet(Sessions!Busy(t)) /\
       flags[t] + Cardinality(Sessions!Busy(t)) <= MaxFlags
  /\ \A t \in Token : IsFiniteSet(users[t])
  /\ \A x \in Sessions!Window : \A a, b \in ips[x] : a = b

(* A token no two of whose first uses overlapped: whoever is about to      *)
(* store a window is alone, whoever has one has the one in the map, and    *)
(* until the token is flagged that window has every address.               *)
SessionsAgree ==
  \A t \in Token \ racedTokens :
    /\ \A g \in Sessions!Busy(t) : evalAt[g] = "store" =>
         tokenWindow[t] = Nothing /\ Sessions!Busy(t) = {g}
    /\ \A g \in Sessions!Busy(t) : evalAt[g] = "add" => evalWindow[g] = tokenWindow[t]
    /\ tokenWindow[t] = Nothing => users[t] = {}
    /\ tokenWindow[t] # Nothing /\ flags[t] = 0 => ips[tokenWindow[t]] = users[t]

SessionInv ==
  Sessions!TypeOK /\ SessionsFit /\ SessionSizes /\ SessionsAgree /\ Sessions!FlaggedTokenIsShared

LEMMA SessionInit ==
  ASSUME Sessions!BoundAssumption PROVE Sessions!Init => SessionInv
<1> SUFFICES ASSUME Sessions!Init PROVE SessionInv
  OBVIOUS
<1>1. IsFiniteSet({}) /\ Cardinality({}) = 0 /\ 0 \in 0..MaxFlags
  BY FS_EmptySet DEF Sessions!BoundAssumption
<1>2. Sessions!TypeOK
  BY <1>1, SessionCardinality DEF Sessions!Init, Sessions!TypeOK, Sessions!Window
<1>3. \A t \in Token : Sessions!Busy(t) = {}
  BY DEF Sessions!Init, Sessions!Busy
<1>4. SessionSizes
  <2>1. \A t \in Token : flags[t] = 0 /\ users[t] = {} /\ IsFiniteSet(users[t])
    BY <1>1 DEF Sessions!Init
  <2>2. \A x \in Sessions!Window : ips[x] = {}
    BY DEF Sessions!Init
  <2>3. MaxFlags \in Nat
    BY DEF Sessions!BoundAssumption
  <2>4. \A t \in Token : IsFiniteSet(Sessions!Busy(t)) /\ Cardinality(Sessions!Busy(t)) = 0
    BY <1>1, <1>3
  <2>5. \A t \in Token : flags[t] + Cardinality(Sessions!Busy(t)) <= MaxFlags
    BY <2>1, <2>3, <2>4
  <2> QED
    BY <2>1, <2>2, <2>4, <2>5 DEF SessionSizes
<1>5. SessionsFit /\ SessionsAgree
  BY <1>3 DEF Sessions!Init, SessionsFit, SessionsAgree
<1>6. Sessions!FlaggedTokenIsShared
  BY SessionCardinality DEF Sessions!Init, Sessions!FlaggedTokenIsShared, Sessions!Window
<1> QED
  BY <1>2, <1>4, <1>5, <1>6 DEF SessionInv

LEMMA SessionLookupKeeps ==
  ASSUME Sessions!BoundAssumption, SessionInv, NEW g \in Goroutine, NEW t \in Token,
           NEW ip \in Address,
         Sessions!Lookup(g, t, ip)
  PROVE  SessionInv'
<1>1. /\ evalAt[g] = "idle"
      /\ flags[t] + Cardinality(Sessions!Busy(t)) < MaxFlags
      /\ evalUse' = [evalUse EXCEPT ![g] = [token |-> t, ip |-> ip]]
      /\ evalWindow' = [evalWindow EXCEPT ![g] = tokenWindow[t]]
      /\ evalAt' = [evalAt EXCEPT ![g] = IF tokenWindow[t] = Nothing THEN "store" ELSE "add"]
      /\ racedTokens' = IF tokenWindow[t] = Nothing /\ Sessions!Busy(t) # {}
           THEN racedTokens \cup {t} ELSE racedTokens
      /\ UNCHANGED <<tokenWindow, ips, flags, users>>
  BY SessionCardinality DEF Sessions!Lookup
<1>2. [token |-> t, ip |-> ip] \in Sessions!Use
  BY DEF Sessions!Use
<1>3. Sessions!TypeOK'
  BY <1>1, <1>2, SessionCardinality DEF SessionInv, Sessions!TypeOK
<1>4. SessionsFit'
  BY <1>1, <1>2, SessionCardinality DEF SessionInv, Sessions!TypeOK, SessionsFit
<1>5. /\ evalAt'[g] = IF tokenWindow[t] = Nothing THEN "store" ELSE "add"
      /\ evalUse'[g].token = t /\ evalWindow'[g] = tokenWindow[t]
      /\ \A h \in Goroutine \ {g} :
           evalAt'[h] = evalAt[h] /\ evalUse'[h] = evalUse[h] /\ evalWindow'[h] = evalWindow[h]
  BY <1>1, SessionCardinality DEF SessionInv, Sessions!TypeOK
<1>6. /\ Sessions!Busy(t)' = Sessions!Busy(t) \cup {g} /\ g \notin Sessions!Busy(t)
      /\ \A s \in Token \ {t} : Sessions!Busy(s)' = Sessions!Busy(s) /\ g \notin Sessions!Busy(s)
  BY <1>1, <1>5 DEF Sessions!Busy
<1>7. SessionSizes'
  <2>1. IsFiniteSet(Sessions!Busy(t)) /\ flags[t] \in Nat /\ MaxFlags \in Nat
    BY SessionCardinality DEF SessionInv, SessionSizes, Sessions!TypeOK, Sessions!BoundAssumption
  <2>2. IsFiniteSet(Sessions!Busy(t)') /\
          Cardinality(Sessions!Busy(t)') = Cardinality(Sessions!Busy(t)) + 1
    BY <1>6, <2>1, FS_AddElement
  <2>3. flags[t] + Cardinality(Sessions!Busy(t)') <= MaxFlags
    BY <1>1, <2>1, <2>2, FS_CardinalityType
  <2>4. \A s \in Token : IsFiniteSet(Sessions!Busy(s)') /\
          flags[s] + Cardinality(Sessions!Busy(s)') <= MaxFlags
    BY <1>6, <2>2, <2>3 DEF SessionInv, SessionSizes
  <2> QED
    BY <1>1, <2>4 DEF SessionInv, SessionSizes
<1>8. SessionsAgree'
  <2>1. ASSUME NEW s \in Token \ racedTokens', NEW k \in Sessions!Busy(s)'
        PROVE  /\ evalAt'[k] = "store" => tokenWindow[s] = Nothing /\ Sessions!Busy(s)' = {k}
               /\ evalAt'[k] = "add" => evalWindow'[k] = tokenWindow[s]
    <3>0. s \in Token \ racedTokens /\ k \in Goroutine
      BY <1>1, <2>1 DEF Sessions!Busy
    <3>1. CASE s = t
      <4>1. tokenWindow[t] = Nothing => Sessions!Busy(t) = {}
        BY <1>1, <2>1, <3>1
      <4>2. CASE k = g
        BY <1>5, <1>6, <3>1, <4>1, <4>2
      <4>3. CASE k # g
        <5>1. k \in Sessions!Busy(t) /\ evalAt'[k] = evalAt[k] /\
                evalWindow'[k] = evalWindow[k] /\ tokenWindow[t] # Nothing
          BY <1>5, <1>6, <2>1, <3>0, <3>1, <4>1, <4>3
        <5> QED
          BY <3>0, <3>1, <5>1 DEF SessionInv, SessionsAgree
      <4> QED
        BY <4>2, <4>3
    <3>2. CASE s # t
      <4>1. k \in Sessions!Busy(s) /\ Sessions!Busy(s)' = Sessions!Busy(s) /\
              evalAt'[k] = evalAt[k] /\ evalWindow'[k] = evalWindow[k]
        BY <1>5, <1>6, <2>1, <3>0, <3>2
      <4> QED
        BY <3>0, <4>1 DEF SessionInv, SessionsAgree
    <3> QED
      BY <3>1, <3>2
  <2>2. racedTokens \subseteq racedTokens'
    BY <1>1
  <2> QED
    BY <1>1, <2>1, <2>2 DEF SessionInv, SessionsAgree
<1>9. Sessions!FlaggedTokenIsShared'
  BY <1>1, SessionCardinality DEF SessionInv, Sessions!FlaggedTokenIsShared
<1> QED
  BY <1>3, <1>4, <1>7, <1>8, <1>9 DEF SessionInv

LEMMA SessionStoreKeeps ==
  ASSUME Sessions!BoundAssumption, SessionInv, NEW g \in Goroutine, Sessions!StoreWindow(g)
  PROVE  SessionInv'
<1>0. PICK t : t = evalUse[g].token
  OBVIOUS
<1>1. /\ evalAt[g] = "store"
      /\ evalAt' = [evalAt EXCEPT ![g] = "add"]
      /\ evalWindow' = [evalWindow EXCEPT ![g] = <<g, t>>]
      /\ tokenWindow' = [tokenWindow EXCEPT ![t] = evalWindow'[g]]
      /\ UNCHANGED <<ips, evalUse, flags, users, racedTokens>>
  BY <1>0 DEF Sessions!StoreWindow
<1>2. evalUse[g] \in Sessions!Use /\ t \in Token /\ <<g, t>> \in Sessions!Window /\
        evalWindow'[g] = <<g, t>>
  BY <1>0, <1>1, SessionCardinality
  DEF SessionInv, Sessions!TypeOK, SessionsFit, Sessions!Use, Sessions!Window
<1>3. /\ evalAt'[g] = "add" /\ tokenWindow'[t] = <<g, t>> /\ evalUse' = evalUse
      /\ \A h \in Goroutine \ {g} : evalAt'[h] = evalAt[h] /\ evalWindow'[h] = evalWindow[h]
      /\ \A s \in Token \ {t} : tokenWindow'[s] = tokenWindow[s]
  BY <1>1, <1>2, SessionCardinality DEF SessionInv, Sessions!TypeOK
<1>4. Sessions!TypeOK'
  BY <1>1, <1>2, SessionCardinality DEF SessionInv, Sessions!TypeOK
<1>5. SessionsFit'
  <2>1. \A s \in Token : tokenWindow'[s] # Nothing =>
          tokenWindow'[s] \in Sessions!Window /\ tokenWindow'[s][2] = s
    BY <1>2, <1>3 DEF SessionInv, SessionsFit
  <2>2. \A h \in Goroutine : evalAt'[h] # "idle" => evalUse[h] \in Sessions!Use
    BY <1>2, <1>3 DEF SessionInv, SessionsFit
  <2>3. \A h \in Goroutine : evalAt'[h] = "add" =>
          evalWindow'[h] \in Sessions!Window /\ evalWindow'[h][2] = evalUse[h].token
    BY <1>0, <1>2, <1>3 DEF SessionInv, SessionsFit
  <2> QED
    BY <1>3, <2>1, <2>2, <2>3 DEF SessionsFit
<1>6. \A s \in Token : Sessions!Busy(s)' = Sessions!Busy(s)
  BY <1>1, <1>3 DEF Sessions!Busy
<1>7. SessionSizes' /\ Sessions!FlaggedTokenIsShared'
  BY <1>1, <1>6, SessionCardinality DEF SessionInv, SessionSizes, Sessions!FlaggedTokenIsShared
<1>8. SessionsAgree'
  <2> SUFFICES ASSUME NEW s \in Token \ racedTokens
               PROVE  /\ \A k \in Sessions!Busy(s) : evalAt'[k] = "store" =>
                           tokenWindow'[s] = Nothing /\ Sessions!Busy(s) = {k}
                      /\ \A k \in Sessions!Busy(s) : evalAt'[k] = "add" =>
                           evalWindow'[k] = tokenWindow'[s]
                      /\ tokenWindow'[s] = Nothing => users[s] = {}
                      /\ tokenWindow'[s] # Nothing /\ flags[s] = 0 =>
                           ips[tokenWindow'[s]] = users[s]
    BY <1>1, <1>6 DEF SessionsAgree
  <2>1. CASE s = t
    <3>1. g \in Sessions!Busy(t)
      BY <1>0, <1>1 DEF Sessions!Busy
    <3>2. Sessions!Busy(t) = {g} /\ users[t] = {}
      BY <1>1, <2>1, <3>1 DEF SessionInv, SessionsAgree
    <3>3. ips[<<g, t>>] = {}
      BY <1>2, <3>2, SessionCardinality DEF SessionInv, Sessions!FlaggedTokenIsShared
    <3> QED
      BY <1>2, <1>3, <2>1, <3>2, <3>3
  <2>2. CASE s # t
    <3>1. g \notin Sessions!Busy(s)
      BY <1>0, <2>2 DEF Sessions!Busy
    <3>2. \A k \in Sessions!Busy(s) : evalAt'[k] = evalAt[k] /\ evalWindow'[k] = evalWindow[k]
      BY <1>3, <3>1 DEF Sessions!Busy
    <3> QED
      BY <1>3, <2>2, <3>2 DEF SessionInv, SessionsAgree
  <2> QED
    BY <2>1, <2>2
<1> QED
  BY <1>4, <1>5, <1>7, <1>8 DEF SessionInv

(* The addresses a window has seen with the one that is added: two at most *)
(* and two exactly if the window held another one.                         *)
LEMMA SeenOf ==
  ASSUME SessionInv, NEW g \in Goroutine, evalAt[g] = "add"
  PROVE  /\ Sessions!Seen(g) \subseteq Address
         /\ IsFiniteSet(Sessions!Seen(g)) /\ Cardinality(Sessions!Seen(g)) \in Nat
         /\ Cardinality(Sessions!Seen(g)) < 2 => \A a, b \in Sessions!Seen(g) : a = b
<1>1. evalWindow[g] \in Sessions!Window /\ evalUse[g].ip \in Address
  BY DEF SessionInv, SessionsFit, Sessions!Use
<1>2. ips[evalWindow[g]] \subseteq Address /\ \A a, b \in ips[evalWindow[g]] : a = b
  BY <1>1, SessionCardinality DEF SessionInv, Sessions!TypeOK, SessionSizes
<1>3. PICK S : S = Sessions!Seen(g)
  OBVIOUS
<1>4. CASE ips[evalWindow[g]] \subseteq {evalUse[g].ip}
  <2>1. S = {evalUse[g].ip}
    BY <1>3, <1>4 DEF Sessions!Seen
  <2>2. IsFiniteSet(S) /\ Cardinality(S) = 1
    BY <2>1, FS_Singleton
  <2> QED
    BY <1>1, <1>3, <2>1, <2>2
<1>5. CASE ~(ips[evalWindow[g]] \subseteq {evalUse[g].ip})
  <2>1. PICK a \in ips[evalWindow[g]] : a # evalUse[g].ip
    BY <1>5
  <2>2. S = {evalUse[g].ip} \cup {a} /\ a \notin {evalUse[g].ip}
    BY <1>2, <1>3, <2>1 DEF Sessions!Seen
  <2>3. IsFiniteSet({evalUse[g].ip}) /\ Cardinality({evalUse[g].ip}) = 1
    BY FS_Singleton
  <2>4. IsFiniteSet(S) /\ Cardinality(S) = 2
    BY <2>2, <2>3, FS_AddElement
  <2> QED
    BY <1>1, <1>2, <1>3, <2>1, <2>2, <2>4
<1> QED
  BY <1>4, <1>5

(* The process ends at the second address of a short token: everything is  *)
(* as it is at the start.                                                  *)
LEMMA PanicKeeps ==
  ASSUME Sessions!BoundAssumption, SessionInv, NEW g \in Goroutine, Sessions!Panic(g)
  PROVE  SessionInv'
<1>1. IsFiniteSet({}) /\ Cardinality({}) = 0 /\ 0 \in 0..MaxFlags
  BY FS_EmptySet DEF Sessions!BoundAssumption
<1>2. Sessions!TypeOK'
  BY <1>1, SessionCardinality DEF Sessions!Panic, Sessions!TypeOK, Sessions!Window
<1>3. \A t \in Token : Sessions!Busy(t)' = {}
  BY DEF Sessions!Panic, Sessions!Busy
<1>4. SessionSizes'
  <2>1. \A t \in Token : flags'[t] = 0 /\ users'[t] = {} /\ IsFiniteSet(users'[t])
    BY <1>1 DEF Sessions!Panic
  <2>2. \A x \in Sessions!Window : ips'[x] = {}
    BY DEF Sessions!Panic
  <2>3. MaxFlags \in Nat
    BY DEF Sessions!BoundAssumption
  <2>4. \A t \in Token : IsFiniteSet(Sessions!Busy(t)') /\ Cardinality(Sessions!Busy(t)') = 0
    BY <1>1, <1>3
  <2>5. \A t \in Token : flags'[t] + Cardinality(Sessions!Busy(t)') <= MaxFlags
    BY <2>1, <2>3, <2>4
  <2> QED
    BY <2>1, <2>2, <2>4, <2>5 DEF SessionSizes
<1>5. SessionsFit' /\ SessionsAgree'
  BY <1>3 DEF Sessions!Panic, SessionsFit, SessionsAgree
<1>6. Sessions!FlaggedTokenIsShared'
  BY SessionCardinality DEF Sessions!Panic, Sessions!FlaggedTokenIsShared, Sessions!Window
<1> QED
  BY <1>2, <1>4, <1>5, <1>6 DEF SessionInv

LEMMA AddKeeps ==
  ASSUME Sessions!BoundAssumption, SessionInv, NEW g \in Goroutine, Sessions!AddAddress(g)
  PROVE  SessionInv'
<1>0. PICK t, x, ip, S : t = evalUse[g].token /\ x = evalWindow[g] /\ ip = evalUse[g].ip /\
             S = Sessions!Seen(g)
  OBVIOUS
<1>1. /\ evalAt[g] = "add"
      /\ evalAt' = [evalAt EXCEPT ![g] = "idle"]
      /\ evalUse' = [evalUse EXCEPT ![g] = Nothing]
      /\ evalWindow' = [evalWindow EXCEPT ![g] = Nothing]
      /\ users' = [users EXCEPT ![t] = @ \cup {ip}]
      /\ IF Cardinality(S) >= 2
           THEN /\ ips' = [ips EXCEPT ![x] = {}]
                /\ flags' = [flags EXCEPT ![t] = @ + 1]
           ELSE /\ ips' = [ips EXCEPT ![x] = S]
                /\ UNCHANGED flags
      /\ UNCHANGED <<tokenWindow, racedTokens>>
  BY <1>0, SessionCardinality DEF Sessions!AddAddress, Sessions!Rest, Sessions!IsShared
<1>2. t \in Token /\ ip \in Address /\ x \in Sessions!Window /\ x[2] = t
  BY <1>0, <1>1 DEF SessionInv, SessionsFit, Sessions!Use
<1>3. PICK w \in Goroutine : x = <<w, t>>
  BY <1>2 DEF Sessions!Window
<1>4. /\ S = ips[x] \cup {ip} /\ S \subseteq Address /\ IsFiniteSet(S)
      /\ Cardinality(S) \in Nat
      /\ Cardinality(S) < 2 => \A a, b \in S : a = b
  BY <1>0, <1>1, SeenOf DEF Sessions!Seen
<1>5. /\ users'[t] = users[t] \cup {ip}
      /\ \A s \in Token \ {t} : users'[s] = users[s] /\ flags'[s] = flags[s]
      /\ \A y \in Sessions!Window \ {x} : ips'[y] = ips[y]
      /\ ips'[x] = IF Cardinality(S) >= 2 THEN {} ELSE S
      /\ flags'[t] = IF Cardinality(S) >= 2 THEN flags[t] + 1 ELSE flags[t]
      /\ evalAt'[g] = "idle"
      /\ \A h \in Goroutine \ {g} :
           evalAt'[h] = evalAt[h] /\ evalUse'[h] = evalUse[h] /\ evalWindow'[h] = evalWindow[h]
  BY <1>1, <1>2, SessionCardinality DEF SessionInv, Sessions!TypeOK
<1>6. g \in Sessions!Busy(t) /\ \A s \in Token : Sessions!Busy(s)' = Sessions!Busy(s) \ {g}
  BY <1>0, <1>1, <1>5 DEF Sessions!Busy
<1>7. \A s \in Token \ {t} : g \notin Sessions!Busy(s)
  BY <1>0 DEF Sessions!Busy
<1>8. /\ IsFiniteSet(Sessions!Busy(t)') /\
           Cardinality(Sessions!Busy(t)') = Cardinality(Sessions!Busy(t)) - 1
      /\ Cardinality(Sessions!Busy(t)) \in Nat /\ Cardinality(Sessions!Busy(t)') \in Nat
  <2>1. IsFiniteSet(Sessions!Busy(t))
    BY <1>2 DEF SessionInv, SessionSizes
  <2>2. IsFiniteSet(Sessions!Busy(t) \ {g}) /\
          Cardinality(Sessions!Busy(t) \ {g}) = Cardinality(Sessions!Busy(t)) - 1
    BY <1>6, <2>1, FS_RemoveElement
  <2> QED
    BY <1>2, <1>6, <2>1, <2>2, FS_CardinalityType
<1>9. /\ flags[t] \in Nat /\ flags'[t] \in 0..MaxFlags
      /\ flags'[t] + Cardinality(Sessions!Busy(t)') <= MaxFlags
  <2>1. flags[t] \in Nat /\ MaxFlags \in Nat /\ flags[t] + Cardinality(Sessions!Busy(t)) <= MaxFlags
    BY <1>2, SessionCardinality
    DEF SessionInv, SessionSizes, Sessions!TypeOK, Sessions!BoundAssumption
  <2>2. flags'[t] = flags[t] + 1 \/ flags'[t] = flags[t]
    BY <1>5
  <2> QED
    BY <1>8, <2>1, <2>2
<1>10. \A y \in Sessions!Window : \A a, b \in ips'[y] : a = b
  <2>1. \A a, b \in ips'[x] : a = b
    BY <1>4, <1>5
  <2>2. \A y \in Sessions!Window \ {x} : \A a, b \in ips'[y] : a = b
    BY <1>5 DEF SessionInv, SessionSizes
  <2> QED
    BY <2>1, <2>2
<1>11. Sessions!TypeOK'
  <2>1. ips' \in [Sessions!Window -> SUBSET Address]
    BY <1>1, <1>4, SessionCardinality DEF SessionInv, Sessions!TypeOK
  <2>2. \A y \in Sessions!Window : Cardinality(ips'[y]) <= 1
    <3>1. \A y \in Sessions!Window \ {x} : Cardinality(ips'[y]) <= 1
      BY <1>5, SessionCardinality DEF SessionInv, Sessions!TypeOK
    <3>2. Cardinality({}) = 0
      BY FS_EmptySet
    <3>3. Cardinality(ips'[x]) <= 1
      BY <1>4, <1>5, <3>2
    <3> QED
      BY <3>1, <3>3
  <2>3. flags' \in [Token -> 0..MaxFlags]
    <3>1. flags' = [flags EXCEPT ![t] = flags'[t]]
      BY <1>1, <1>2, <1>5, SessionCardinality DEF SessionInv, Sessions!TypeOK
    <3> QED
      BY <1>9, <3>1, SessionCardinality DEF SessionInv, Sessions!TypeOK
  <2>4. users' \in [Token -> SUBSET Address]
    BY <1>1, <1>2, SessionCardinality DEF SessionInv, Sessions!TypeOK
  <2> QED
    BY <1>1, <2>1, <2>2, <2>3, <2>4, SessionCardinality DEF SessionInv, Sessions!TypeOK
<1>12. SessionsFit'
  BY <1>1, <1>5 DEF SessionInv, SessionsFit
<1>13. SessionSizes'
  <2>1. \A s \in Token : IsFiniteSet(Sessions!Busy(s)') /\
          flags'[s] + Cardinality(Sessions!Busy(s)') <= MaxFlags
    <3>1. \A s \in Token \ {t} : Sessions!Busy(s)' = Sessions!Busy(s)
      BY <1>6, <1>7
    <3>2. \A s \in Token \ {t} :
            IsFiniteSet(Sessions!Busy(s)') /\ flags'[s] + Cardinality(Sessions!Busy(s)') <= MaxFlags
      BY <1>5, <3>1 DEF SessionInv, SessionSizes
    <3> QED
      BY <1>8, <1>9, <3>2
  <2>2. IsFiniteSet(users'[t])
    <3>1. IsFiniteSet(users[t])
      BY <1>2 DEF SessionInv, SessionSizes
    <3>2. IsFiniteSet(users[t] \cup {ip})
      BY <3>1, FS_AddElement
    <3> QED
      BY <1>5, <3>2
  <2>3. \A s \in Token : IsFiniteSet(users'[s])
    BY <1>5, <2>2 DEF SessionInv, SessionSizes
  <2> QED
    BY <1>10, <2>1, <2>3 DEF SessionSizes
<1>14. Sessions!FlaggedTokenIsShared'
  <2>1. ips[x] \subseteq users[t] /\ IsFiniteSet(users[t])
    BY <1>2, <1>3, SessionCardinality DEF SessionInv, Sessions!FlaggedTokenIsShared, SessionSizes
  <2>2. S \subseteq users'[t] /\ users[t] \subseteq users'[t] /\ IsFiniteSet(users'[t])
    BY <1>2, <1>4, <1>5, <1>13, <2>1 DEF SessionSizes
  <2>3. Cardinality(S) <= Cardinality(users'[t]) /\ Cardinality(users[t]) <= Cardinality(users'[t])
    BY <2>2, FS_Subset
  <2>4. flags'[t] > 0 => Cardinality(users'[t]) >= 2
    <3>1. Cardinality(users[t]) \in Nat /\ Cardinality(users'[t]) \in Nat
      BY <2>1, <2>2, FS_CardinalityType
    <3>2. CASE Cardinality(S) >= 2
      BY <1>4, <2>3, <3>1, <3>2
    <3>3. CASE ~(Cardinality(S) >= 2)
      <4>1. flags[t] > 0 => Cardinality(users[t]) >= 2
        BY <1>2, SessionCardinality DEF SessionInv, Sessions!FlaggedTokenIsShared
      <4>2. flags'[t] = flags[t]
        BY <1>5, <3>3
      <4> QED
        BY <2>3, <3>1, <4>1, <4>2
    <3> QED
      BY <3>2, <3>3
  <2>5. flags'[t] > 0 => t \notin Short
    <3>1. Cardinality(S) >= 2 => t \notin Short
      BY <1>0, SessionCardinality DEF Sessions!AddAddress, Sessions!IsShared
    <3>2. flags[t] > 0 => t \notin Short
      BY <1>2, SessionCardinality DEF SessionInv, Sessions!FlaggedTokenIsShared
    <3> QED
      BY <1>5, <3>1, <3>2
  <2>6. \A h \in Goroutine : ips'[<<h, t>>] \subseteq users'[t]
    <3> SUFFICES ASSUME NEW h \in Goroutine
                 PROVE  ips'[<<h, t>>] \subseteq users'[t]
      OBVIOUS
    <3>1. CASE <<h, t>> = x
      BY <1>5, <2>2, <3>1
    <3>2. CASE <<h, t>> # x
      BY <1>2, <1>5, <2>2, <3>2, SessionCardinality
      DEF SessionInv, Sessions!FlaggedTokenIsShared, Sessions!Window
    <3> QED
      BY <3>1, <3>2
  <2>7. ASSUME NEW s \in Token \ {t}
        PROVE  /\ flags'[s] > 0 => Cardinality(users'[s]) >= 2 /\ s \notin Short
               /\ \A h \in Goroutine : ips'[<<h, s>>] \subseteq users'[s]
    BY <1>3, <1>5, <2>7, SessionCardinality
    DEF SessionInv, Sessions!FlaggedTokenIsShared, Sessions!Window
  <2> QED
    BY <2>4, <2>5, <2>6, <2>7, SessionCardinality DEF Sessions!FlaggedTokenIsShared
<1>15. SessionsAgree'
  <2>0. racedTokens' = racedTokens /\ tokenWindow' = tokenWindow
    BY <1>1
  <2> SUFFICES ASSUME NEW s \in Token \ racedTokens
               PROVE  /\ \A k \in Sessions!Busy(s)' : evalAt'[k] = "store" =>
                           tokenWindow[s] = Nothing /\ Sessions!Busy(s)' = {k}
                      /\ \A k \in Sessions!Busy(s)' : evalAt'[k] = "add" =>
                           evalWindow'[k] = tokenWindow[s]
                      /\ tokenWindow[s] = Nothing => users'[s] = {}
                      /\ tokenWindow[s] # Nothing /\ flags'[s] = 0 =>
                           ips'[tokenWindow[s]] = users'[s]
    BY <2>0 DEF SessionsAgree
  <2>1. ASSUME NEW k \in Sessions!Busy(s)'
        PROVE  /\ evalAt'[k] = "store" => tokenWindow[s] = Nothing /\ Sessions!Busy(s)' = {k}
               /\ evalAt'[k] = "add" => evalWindow'[k] = tokenWindow[s]
    <3>1. k \in Sessions!Busy(s) /\ k # g /\ evalAt'[k] = evalAt[k] /\
            evalWindow'[k] = evalWindow[k]
      BY <1>5, <1>6, <2>1 DEF Sessions!Busy
    <3>2. evalAt[k] = "store" => Sessions!Busy(s) = {k}
      BY <3>1 DEF SessionInv, SessionsAgree
    <3> QED
      BY <1>6, <3>1, <3>2 DEF SessionInv, SessionsAgree
  <2>2. CASE s = t
    <3>1. tokenWindow[t] = x /\ x # Nothing
      BY <1>0, <1>1, <1>2, <1>6, <2>2
      DEF SessionInv, SessionsAgree, Sessions!BoundAssumption, Sessions!Window
    <3>2. flags'[t] = 0 => flags[t] = 0 /\ ~(Cardinality(S) >= 2)
      BY <1>5, <1>9
    <3>3. flags[t] = 0 => ips[x] = users[t]
      BY <2>2, <3>1 DEF SessionInv, SessionsAgree
    <3> QED
      BY <1>4, <1>5, <2>1, <2>2, <3>1, <3>2, <3>3
  <2>3. CASE s # t
    <3>1. tokenWindow[s] # Nothing => tokenWindow[s] \in Sessions!Window \ {x}
      BY <1>2, <2>3 DEF SessionInv, SessionsFit
    <3> QED
      BY <1>5, <2>1, <2>3, <3>1 DEF SessionInv, SessionsAgree
  <2> QED
    BY <2>2, <2>3
<1> QED
  BY <1>11, <1>12, <1>13, <1>14, <1>15 DEF SessionInv

LEMMA SessionStep ==
  ASSUME Sessions!BoundAssumption PROVE SessionInv /\ [Sessions!Next]_(Sessions!vars) => SessionInv'
<1> SUFFICES ASSUME SessionInv, [Sessions!Next]_(Sessions!vars) PROVE SessionInv'
  OBVIOUS
<1>1. CASE UNCHANGED Sessions!vars
  <2>1. \A t \in Token : Sessions!Busy(t)' = Sessions!Busy(t)
    BY <1>1 DEF Sessions!vars, Sessions!Busy
  <2> QED
    BY <1>1, <2>1, SessionCardinality
    DEF Sessions!vars, SessionInv, Sessions!TypeOK, SessionsFit, SessionSizes, SessionsAgree,
                      Sessions!FlaggedTokenIsShared
<1> QED
  BY <1>1, SessionLookupKeeps, SessionStoreKeeps, AddKeeps, PanicKeeps DEF Sessions!Next

(* An unflagged token's window in the map has every address that used it,  *)
(* and no window keeps two.                                                *)
LEMMA SessionsSound ==
  ASSUME Sessions!BoundAssumption, SessionInv PROVE Sessions!SharedTokenIsFlagged
<1> SUFFICES ASSUME NEW t \in Token \ racedTokens, Cardinality(users[t]) >= 2, flags[t] = 0
             PROVE  FALSE
  BY SessionCardinality DEF Sessions!SharedTokenIsFlagged, SessionInv, Sessions!TypeOK
<1>1. CASE tokenWindow[t] = Nothing
  <2>1. users[t] = {}
    BY <1>1 DEF SessionInv, SessionsAgree
  <2> QED
    BY <2>1, FS_EmptySet
<1>2. CASE tokenWindow[t] # Nothing
  <2>1. ips[tokenWindow[t]] = users[t] /\ tokenWindow[t] \in Sessions!Window
    BY <1>2 DEF SessionInv, SessionsAgree, SessionsFit
  <2>2. Cardinality(users[t]) <= 1
    BY <2>1, SessionCardinality DEF SessionInv, Sessions!TypeOK
  <2>3. Cardinality(users[t]) \in Nat
    BY FS_CardinalityType DEF SessionInv, SessionSizes
  <2> QED
    BY <2>2, <2>3
<1> QED
  BY <1>1, <1>2

-----------------------------------------------------------------------------
(* Correlation.  The workers that are about to count an event of a source, *)
(* the rows they are about to count it on, the workers that are about to   *)
(* insert a row for it.                                                    *)
Counting(s) == {w \in Goroutine : workerAt[w] = "count" /\ event[w] = s}
Awaited(s) == {found[w] : w \in Counting(s)}
Inserting(s) == {w \in Goroutine : workerAt[w] = "insert" /\ event[w] = s}

EventsKnown == \A w \in Goroutine : workerAt[w] # "idle" => event[w] \in Address
CountedFinite == \A s \in Address : IsFiniteSet(Correlation!Counted(s))

(* A row that is open, or will be when a worker has counted its event, is  *)
(* there because a worker found none or its query failed.                  *)
OpenBounded ==
  \A s \in Address \ reopened :
    Cardinality(Correlation!OpenRows(s) \cup Awaited(s)) + Cardinality(Inserting(s))
      <= Cardinality(Goroutine) + failures

CorrelationInv ==
  /\ Correlation!TypeOK /\ EventsKnown /\ CountedFinite /\ Correlation!EventsAccounted /\
       Correlation!CountsOwnSource
  /\ OpenBounded

(* The pairs that stand for the counts of a source's rows. *)
LEMMA CountedMember ==
  ASSUME NEW s, NEW e
  PROVE  e \in Correlation!Counted(s) <=> \E n \in Correlation!RowsOf(s) :
           e \in {n} \X (1..incidents[n].count)
BY DEF Correlation!Counted

LEMMA CountedSame ==
  ASSUME NEW s, Correlation!RowsOf(s)' = Correlation!RowsOf(s),
         \A n \in Correlation!RowsOf(s) : incidents'[n].count = incidents[n].count
  PROVE  Correlation!Counted(s)' = Correlation!Counted(s)
BY DEF Correlation!Counted

(* Every set the bounds speak of is finite. *)
LEMMA CorrelationFinite ==
  ASSUME Correlation!BoundAssumption, Correlation!TypeOK, Correlation!CountsOwnSource,
           NEW s \in Address
  PROVE  /\ IsFiniteSet(Correlation!InFlight(s)) /\ Cardinality(Correlation!InFlight(s)) \in Nat
         /\ IsFiniteSet(Inserting(s)) /\ Cardinality(Inserting(s)) \in Nat
         /\ IsFiniteSet(Counting(s)) /\ Cardinality(Counting(s)) \in Nat
         /\ IsFiniteSet(Correlation!OpenRows(s)) /\ Cardinality(Correlation!OpenRows(s)) \in Nat
         /\ IsFiniteSet(Correlation!OpenRows(s) \cup Awaited(s))
         /\ Cardinality(Correlation!OpenRows(s) \cup Awaited(s)) \in Nat
         /\ Cardinality(Goroutine) \in Nat
<1>1. /\ Correlation!InFlight(s) \in SUBSET Goroutine /\ Inserting(s) \in SUBSET Goroutine
      /\ Counting(s) \in SUBSET Goroutine
  BY DEF Correlation!InFlight, Inserting, Counting
<1>2. Correlation!OpenRows(s) \in SUBSET Number /\
        Correlation!OpenRows(s) \cup Awaited(s) \in SUBSET Number
  BY DEF Correlation!OpenRows, Correlation!Rows, Awaited, Counting, Correlation!CountsOwnSource
<1>3. IsFiniteSet(Goroutine) /\ IsFiniteSet(Number)
  BY CorrelationCardinality DEF Correlation!BoundAssumption
<1>4. IsFiniteSet(Correlation!InFlight(s)) /\ IsFiniteSet(Inserting(s)) /\ IsFiniteSet(Counting(s))
  BY <1>1, <1>3, FS_Subset
<1>5. IsFiniteSet(Correlation!OpenRows(s)) /\ IsFiniteSet(Correlation!OpenRows(s) \cup Awaited(s))
  BY <1>2, <1>3, FS_Subset
<1> QED
  BY <1>3, <1>4, <1>5, FS_CardinalityType

LEMMA CorrelationInit ==
  ASSUME Correlation!BoundAssumption PROVE Correlation!Init => CorrelationInv
<1> SUFFICES ASSUME Correlation!Init PROVE CorrelationInv
  OBVIOUS
<1>1. Correlation!TypeOK
  BY CorrelationCardinality DEF Correlation!Init, Correlation!TypeOK, Correlation!BoundAssumption
<1>2. IsFiniteSet({}) /\ Cardinality({}) = 0
  BY FS_EmptySet
<1>3. Correlation!Rows = {}
  BY DEF Correlation!Init, Correlation!Rows
<1>4. EventsKnown /\ Correlation!CountsOwnSource
  BY DEF Correlation!Init, EventsKnown, Correlation!CountsOwnSource
<1>5. ASSUME NEW s \in Address
      PROVE  /\ Correlation!Counted(s) = {} /\ Correlation!InFlight(s) = {} /\
                  Correlation!OpenRows(s) \cup Awaited(s) = {}
             /\ Inserting(s) = {}
  <2>1. Correlation!Counted(s) = {}
    BY <1>3, CountedMember DEF Correlation!RowsOf
  <2> QED
    BY <1>3, <2>1
    DEF Correlation!Init, Correlation!InFlight, Correlation!OpenRows, Awaited, Counting, Inserting
<1>6. CountedFinite
  BY <1>2, <1>5 DEF CountedFinite
<1>7. Correlation!EventsAccounted
  BY <1>2, <1>5, CorrelationCardinality DEF Correlation!Init, Correlation!EventsAccounted
<1>8. OpenBounded
  <2>1. Cardinality(Goroutine) \in Nat /\ failures = 0
    BY FS_CardinalityType, CorrelationCardinality DEF Correlation!Init, Correlation!BoundAssumption
  <2>2. ASSUME NEW s \in Address
        PROVE  Cardinality(Correlation!OpenRows(s) \cup Awaited(s)) + Cardinality(Inserting(s))
                 <= Cardinality(Goroutine) + failures
    <3>1. Cardinality(Correlation!OpenRows(s) \cup Awaited(s)) = 0 /\ Cardinality(Inserting(s)) = 0
      BY <1>2, <1>5
    <3> QED
      BY <2>1, <3>1
  <2> QED
    BY <2>2 DEF OpenBounded
<1> QED
  BY <1>1, <1>4, <1>6, <1>7, <1>8 DEF CorrelationInv

(* A source that finds no open incident: fewer rows are awaited than there *)
(* are workers waiting.                                                    *)
LEMMA AwaitedBounded ==
  ASSUME Correlation!BoundAssumption, Correlation!TypeOK, Correlation!CountsOwnSource,
           NEW s \in Address, NEW w \in Goroutine,
         workerAt[w] = "idle", Correlation!OpenRows(s) = {}
  PROVE  Cardinality(Correlation!OpenRows(s) \cup Awaited(s)) + Cardinality(Inserting(s)) + 1
           <= Cardinality(Goroutine)
<1>1. PICK C, A, I : C = Counting(s) /\ A = Awaited(s) /\ I = Inserting(s)
  OBVIOUS
<1>2. IsFiniteSet(C) /\ IsFiniteSet(I) /\ Cardinality(C) \in Nat /\ Cardinality(I) \in Nat
  BY <1>1, CorrelationFinite
<1>3. Correlation!OpenRows(s) \cup Awaited(s) = A
  BY <1>1
<1>4. Cardinality(A) <= Cardinality(C) /\ Cardinality(A) \in Nat
  <2>1. PICK f : f = [x \in C |-> found[x]]
    OBVIOUS
  <2>2. A = {found[x] : x \in C}
    BY <1>1 DEF Awaited
  <2>3. f \in Surjection(C, A)
    BY <2>1, <2>2 DEF Surjection
  <2>4. IsFiniteSet(A) /\ Cardinality(A) <= Cardinality(C)
    BY <1>2, <2>3, FS_Surjection
  <2> QED
    BY <2>4, FS_CardinalityType
<1>5. C \cap I = {} /\ (C \cup I) \cap {w} = {} /\ (C \cup I) \cup {w} \in SUBSET Goroutine
  BY <1>1 DEF Counting, Inserting
<1>6. IsFiniteSet(C \cup I) /\ Cardinality(C \cup I) = Cardinality(C) + Cardinality(I)
  <2>1. /\ IsFiniteSet(C \cup I)
        /\ Cardinality(C \cup I) = Cardinality(C) + Cardinality(I) - Cardinality(C \cap I)
    BY <1>2, FS_Union
  <2>2. Cardinality(C \cap I) = 0
    BY <1>5, FS_EmptySet
  <2> QED
    BY <1>2, <2>1, <2>2
<1>7. /\ Cardinality((C \cup I) \cup {w}) = Cardinality(C \cup I) + 1
      /\ IsFiniteSet(Goroutine)
  <2>1. w \notin C \cup I
    BY <1>5
  <2> QED
    BY <1>6, <2>1, FS_AddElement, CorrelationCardinality DEF Correlation!BoundAssumption
<1>8. Cardinality((C \cup I) \cup {w}) <= Cardinality(Goroutine) /\ Cardinality(Goroutine) \in Nat
  BY <1>5, <1>7, FS_Subset, FS_CardinalityType
<1> QED
  BY <1>1, <1>2, <1>3, <1>4, <1>6, <1>7, <1>8

LEMMA EventLookupKeeps ==
  ASSUME Correlation!BoundAssumption, CorrelationInv, NEW w \in Goroutine, NEW s \in Address,
           Correlation!Lookup(w, s)
  PROVE  CorrelationInv'
<1>1. /\ workerAt[w] = "idle"
      /\ events' = [events EXCEPT ![s] = @ + 1]
      /\ event' = [event EXCEPT ![w] = s]
      /\ UNCHANGED <<incidents, lost, reopened>>
  BY DEF Correlation!Lookup
<1>2. PICK step \in {"count", "insert"}, n \in Number \cup {Nothing} :
        /\ workerAt' = [workerAt EXCEPT ![w] = step]
        /\ found' = [found EXCEPT ![w] = n]
        /\ step = "count" => n \in Correlation!OpenRows(s) /\ failures' = failures
        /\ step = "insert" =>
             \/ Correlation!OpenRows(s) = {} /\ failures' = failures
             \/ failures < MaxFaults /\ failures' = failures + 1
  <2>1. found = [found EXCEPT ![w] = found[w]] /\ found[w] \in Number \cup {Nothing}
    BY DEF CorrelationInv, Correlation!TypeOK
  <2>2. CASE \E n \in Correlation!OpenRows(s) :
               /\ found' = [found EXCEPT ![w] = n]
               /\ workerAt' = [workerAt EXCEPT ![w] = "count"]
               /\ UNCHANGED failures
    BY <2>2 DEF Correlation!OpenRows, Correlation!Rows
  <2>3. CASE Correlation!OpenRows(s) = {} /\ workerAt' = [workerAt EXCEPT ![w] = "insert"] /\
               UNCHANGED <<found, failures>>
    BY <2>1, <2>3
  <2>4. CASE Correlation!Fault /\ workerAt' = [workerAt EXCEPT ![w] = "insert"] /\ UNCHANGED found
    BY <2>1, <2>4 DEF Correlation!Fault
  <2> QED
    BY <2>2, <2>3, <2>4 DEF Correlation!Lookup
<1>3. /\ workerAt'[w] = step /\ event'[w] = s /\ found'[w] = n
      /\ \A v \in Goroutine \ {w} :
           workerAt'[v] = workerAt[v] /\ event'[v] = event[v] /\ found'[v] = found[v]
      /\ events'[s] = events[s] + 1
      /\ \A t \in Address \ {s} : events'[t] = events[t]
  BY <1>1, <1>2 DEF CorrelationInv, Correlation!TypeOK
<1>4. failures \in 0..MaxFaults /\ failures' \in 0..MaxFaults /\ MaxFaults \in Nat
  BY <1>2, CorrelationCardinality
  DEF CorrelationInv, Correlation!TypeOK, Correlation!BoundAssumption
<1>5. Correlation!TypeOK'
  BY <1>1, <1>2, <1>4 DEF CorrelationInv, Correlation!TypeOK
<1>6. EventsKnown'
  BY <1>3 DEF CorrelationInv, EventsKnown
<1>7. \A t \in Address :
        /\ Correlation!OpenRows(t)' = Correlation!OpenRows(t) /\
             Correlation!RowsOf(t)' = Correlation!RowsOf(t)
        /\ Correlation!Counted(t)' = Correlation!Counted(t) /\ Correlation!Rows' = Correlation!Rows
  BY <1>1 DEF Correlation!OpenRows, Correlation!RowsOf, Correlation!Rows, Correlation!Counted
<1>8. Correlation!CountsOwnSource'
  BY <1>1, <1>2, <1>3, <1>7 DEF CorrelationInv, Correlation!CountsOwnSource, Correlation!OpenRows
<1>9. CountedFinite'
  BY <1>7 DEF CorrelationInv, CountedFinite
<1>10. Correlation!EventsAccounted'
  <2>1. /\ Correlation!InFlight(s)' = Correlation!InFlight(s) \cup {w} /\
             w \notin Correlation!InFlight(s)
        /\ \A t \in Address \ {s} : Correlation!InFlight(t)' = Correlation!InFlight(t)
    BY <1>1, <1>3 DEF Correlation!InFlight
  <2>2. IsFiniteSet(Correlation!InFlight(s)) /\ Cardinality(Correlation!InFlight(s)) \in Nat
    BY CorrelationFinite DEF CorrelationInv
  <2>3. Cardinality(Correlation!InFlight(s)') = Cardinality(Correlation!InFlight(s)) + 1
    BY <2>1, <2>2, FS_AddElement
  <2>4. Cardinality(Correlation!Counted(s)) \in Nat /\ lost[s] \in Nat
    BY FS_CardinalityType DEF CorrelationInv, CountedFinite, Correlation!TypeOK
  <2>5. events[s] = Cardinality(Correlation!Counted(s)) + lost[s] + Cardinality(Correlation!InFlight(s))
    BY CorrelationCardinality DEF CorrelationInv, Correlation!EventsAccounted
  <2>6. events'[s] = Cardinality(Correlation!Counted(s)') + lost'[s] + Cardinality(Correlation!InFlight(s)')
    BY <1>1, <1>3, <1>7, <2>2, <2>3, <2>4, <2>5
  <2>7. \A t \in Address \ {s} :
          events'[t] = Cardinality(Correlation!Counted(t)') + lost'[t] + Cardinality(Correlation!InFlight(t)')
    BY <1>1, <1>3, <1>7, <2>1, CorrelationCardinality
    DEF CorrelationInv, Correlation!EventsAccounted
  <2> QED
    BY <2>6, <2>7, CorrelationCardinality DEF Correlation!EventsAccounted
<1>11. OpenBounded'
  <2>1. ASSUME NEW t \in (Address \ reopened) \ {s}
        PROVE  /\ Correlation!OpenRows(t)' \cup Awaited(t)'
                    = Correlation!OpenRows(t) \cup Awaited(t)
               /\ Inserting(t)' = Inserting(t)
    <3>1. Counting(t)' = Counting(t) /\ Inserting(t)' = Inserting(t)
      BY <1>1, <1>3, <2>1 DEF Counting, Inserting
    <3>2. \A v \in Counting(t) : found'[v] = found[v]
      BY <1>1, <1>3 DEF Counting
    <3> QED
      BY <1>7, <3>1, <3>2 DEF Awaited
  <2>2. \A t \in (Address \ reopened) \ {s} :
          Cardinality(Correlation!OpenRows(t)' \cup Awaited(t)') + Cardinality(Inserting(t)')
            <= Cardinality(Goroutine) + failures'
    <3> SUFFICES ASSUME NEW t \in (Address \ reopened) \ {s}
                 PROVE  Cardinality(Correlation!OpenRows(t)' \cup Awaited(t)') + Cardinality(Inserting(t)')
                          <= Cardinality(Goroutine) + failures'
      OBVIOUS
    <3>1. /\ Cardinality(Correlation!OpenRows(t) \cup Awaited(t)) \in Nat /\
               Cardinality(Inserting(t)) \in Nat
          /\ Cardinality(Goroutine) \in Nat
      BY CorrelationFinite DEF CorrelationInv
    <3>2. Cardinality(Correlation!OpenRows(t) \cup Awaited(t)) + Cardinality(Inserting(t))
            <= Cardinality(Goroutine) + failures
      BY DEF CorrelationInv, OpenBounded
    <3>3. failures <= failures' /\ failures \in Nat /\ failures' \in Nat
      BY <1>2, <1>4
    <3>4. /\ Correlation!OpenRows(t)' \cup Awaited(t)' = Correlation!OpenRows(t) \cup Awaited(t)
          /\ Inserting(t)' = Inserting(t)
      BY <2>1
    <3>5. /\ Cardinality(Correlation!OpenRows(t)' \cup Awaited(t)')
               = Cardinality(Correlation!OpenRows(t) \cup Awaited(t))
          /\ Cardinality(Inserting(t)') = Cardinality(Inserting(t))
      BY <3>4
    <3> QED
      BY <3>1, <3>2, <3>3, <3>5
  <2>3. ASSUME s \notin reopened
        PROVE  Cardinality(Correlation!OpenRows(s)' \cup Awaited(s)') + Cardinality(Inserting(s)')
                 <= Cardinality(Goroutine) + failures'
    <3>1. PICK X, I : X = Correlation!OpenRows(s) \cup Awaited(s) /\ I = Inserting(s)
      OBVIOUS
    <3>2. /\ IsFiniteSet(X) /\ Cardinality(X) \in Nat /\ IsFiniteSet(I) /\ Cardinality(I) \in Nat
          /\ Cardinality(Goroutine) \in Nat
      BY <3>1, CorrelationFinite DEF CorrelationInv
    <3>3. Cardinality(X) + Cardinality(I) <= Cardinality(Goroutine) + failures
      BY <2>3, <3>1 DEF CorrelationInv, OpenBounded
    <3>4. CASE step = "count"
      <4>1. Counting(s)' = Counting(s) \cup {w} /\ w \notin Counting(s) /\ Inserting(s)' = I
        BY <1>1, <1>3, <3>1, <3>4 DEF Counting, Inserting
      <4>2. \A v \in Counting(s) : found'[v] = found[v]
        BY <1>3, <4>1 DEF Counting
      <4>3. Awaited(s)' = Awaited(s) \cup {n}
        BY <1>3, <4>1, <4>2 DEF Awaited
      <4>4. Correlation!OpenRows(s)' \cup Awaited(s)' = X /\ failures' = failures
        BY <1>2, <1>7, <3>1, <3>4, <4>3
      <4> QED
        BY <3>3, <4>1, <4>4
    <3>5. CASE step = "insert"
      <4>1. Counting(s)' = Counting(s) /\ Inserting(s)' = I \cup {w} /\ w \notin I
        BY <1>1, <1>3, <3>1, <3>5 DEF Counting, Inserting
      <4>2. \A v \in Counting(s) : found'[v] = found[v]
        BY <1>1, <1>3 DEF Counting
      <4>3. Correlation!OpenRows(s)' \cup Awaited(s)' = X
        BY <1>7, <3>1, <4>1, <4>2 DEF Awaited
      <4>4. Cardinality(Inserting(s)') = Cardinality(I) + 1
        BY <3>2, <4>1, FS_AddElement
      <4>5. Cardinality(X) + Cardinality(I) + 1 <= Cardinality(Goroutine) + failures'
        <5>1. CASE Correlation!OpenRows(s) = {} /\ failures' = failures
          <6>1. Cardinality(X) + Cardinality(I) + 1 <= Cardinality(Goroutine)
            BY <1>1, <3>1, <5>1, AwaitedBounded DEF CorrelationInv
          <6> QED
            BY <1>4, <3>2, <5>1, <6>1
        <5>2. CASE failures' = failures + 1
          BY <1>4, <3>2, <3>3, <5>2
        <5> QED
          BY <1>2, <3>5, <5>1, <5>2
      <4>6. Cardinality(X) + (Cardinality(I) + 1) = Cardinality(X) + Cardinality(I) + 1
        BY <3>2
      <4>7. Cardinality(X) + Cardinality(Inserting(s)') <= Cardinality(Goroutine) + failures'
        BY <4>4, <4>5, <4>6
      <4> QED
        BY <4>3, <4>7
    <3> QED
      BY <3>4, <3>5
  <2> QED
    BY <1>1, <2>2, <2>3 DEF OpenBounded
<1> QED
  BY <1>5, <1>6, <1>8, <1>9, <1>10, <1>11 DEF CorrelationInv

(* A worker rests, with its event counted on a row, lost, or inserted:     *)
(* what the three ways have in common.                                     *)
LEMMA DoneKeeps ==
  ASSUME Correlation!BoundAssumption, CorrelationInv, NEW w \in Goroutine, workerAt[w] # "idle",
           Correlation!Done(w),
         NEW s \in Address, s = event[w],
         Correlation!TypeOK', Correlation!Rows \subseteq Correlation!Rows',
         \A n \in Correlation!Rows : incidents'[n].source = incidents[n].source,
         \A t \in Address \ {s} :
           Correlation!Counted(t)' = Correlation!Counted(t) /\ lost'[t] = lost[t] /\
             Correlation!OpenRows(t)' = Correlation!OpenRows(t),
         IsFiniteSet(Correlation!Counted(s)'),
         Cardinality(Correlation!Counted(s)') + lost'[s]
           = Cardinality(Correlation!Counted(s)) + lost[s] + 1,
         failures <= failures', failures' \in Nat,
         \/ Correlation!OpenRows(s)' \subseteq Correlation!OpenRows(s) \cup Awaited(s)
         \/ /\ workerAt[w] = "insert"
            /\ \E n : Correlation!OpenRows(s)' \subseteq Correlation!OpenRows(s) \cup {n}
  PROVE  CorrelationInv'
<1>1. /\ workerAt' = [workerAt EXCEPT ![w] = "idle"]
      /\ event' = [event EXCEPT ![w] = Nothing]
      /\ found' = [found EXCEPT ![w] = Nothing]
      /\ UNCHANGED <<events, reopened>>
  BY DEF Correlation!Done
<1>2. /\ workerAt'[w] = "idle"
      /\ \A v \in Goroutine \ {w} :
           workerAt'[v] = workerAt[v] /\ event'[v] = event[v] /\ found'[v] = found[v]
  BY <1>1 DEF CorrelationInv, Correlation!TypeOK
<1>3. EventsKnown'
  BY <1>2 DEF CorrelationInv, EventsKnown
<1>4. Correlation!CountsOwnSource'
  BY <1>2 DEF CorrelationInv, Correlation!CountsOwnSource
<1>5. CountedFinite'
  BY DEF CorrelationInv, CountedFinite
<1>6. Correlation!EventsAccounted'
  <2>1. /\ Correlation!InFlight(s)' = Correlation!InFlight(s) \ {w} /\ w \in Correlation!InFlight(s)
        /\ \A t \in Address \ {s} : Correlation!InFlight(t)' = Correlation!InFlight(t)
    BY <1>2 DEF Correlation!InFlight
  <2>2. IsFiniteSet(Correlation!InFlight(s)) /\ Cardinality(Correlation!InFlight(s)) \in Nat
    BY CorrelationFinite DEF CorrelationInv
  <2>3. Cardinality(Correlation!InFlight(s)') = Cardinality(Correlation!InFlight(s)) - 1
    BY <2>1, <2>2, FS_RemoveElement
  <2>4. Cardinality(Correlation!Counted(s)) \in Nat /\ Cardinality(Correlation!Counted(s)') \in Nat
    BY FS_CardinalityType DEF CorrelationInv, CountedFinite
  <2>5. events[s] = Cardinality(Correlation!Counted(s)) + lost[s] + Cardinality(Correlation!InFlight(s))
    BY CorrelationCardinality DEF CorrelationInv, Correlation!EventsAccounted
  <2>6. lost[s] \in Nat /\ lost'[s] \in Nat
    BY DEF CorrelationInv, Correlation!TypeOK
  <2>7. events'[s] = Cardinality(Correlation!Counted(s)') + lost'[s] + Cardinality(Correlation!InFlight(s)')
    BY <1>1, <2>2, <2>3, <2>4, <2>5, <2>6
  <2>8. \A t \in Address \ {s} :
          events'[t] = Cardinality(Correlation!Counted(t)') + lost'[t] + Cardinality(Correlation!InFlight(t)')
    BY <1>1, <2>1, CorrelationCardinality DEF CorrelationInv, Correlation!EventsAccounted
  <2> QED
    BY <2>7, <2>8, CorrelationCardinality DEF Correlation!EventsAccounted
<1>7. OpenBounded'
  <2> SUFFICES ASSUME NEW t \in Address \ reopened
               PROVE  Cardinality(Correlation!OpenRows(t)' \cup Awaited(t)') + Cardinality(Inserting(t)')
                        <= Cardinality(Goroutine) + failures'
    BY <1>1 DEF OpenBounded
  <2>1. PICK X, I : X = Correlation!OpenRows(t) \cup Awaited(t) /\ I = Inserting(t)
    OBVIOUS
  <2>2. /\ IsFiniteSet(X) /\ Cardinality(X) \in Nat /\ IsFiniteSet(I) /\ Cardinality(I) \in Nat
        /\ Cardinality(Goroutine) \in Nat /\ failures \in Nat
    <3>1. failures \in Nat
      BY DEF CorrelationInv, Correlation!TypeOK
    <3>2. Correlation!TypeOK /\ Correlation!CountsOwnSource
      BY DEF CorrelationInv
    <3> QED
      BY <2>1, <3>1, <3>2, CorrelationFinite
  <2>3. Cardinality(X) + Cardinality(I) <= Cardinality(Goroutine) + failures
    BY <2>1 DEF CorrelationInv, OpenBounded
  <2>4. Awaited(t)' \subseteq Awaited(t)
    <3>1. Counting(t)' \subseteq Counting(t) /\ w \notin Counting(t)'
      BY <1>2 DEF Counting
    <3>2. \A v \in Counting(t)' : found'[v] = found[v]
      BY <1>2, <3>1 DEF Counting
    <3> QED
      BY <3>1, <3>2 DEF Awaited
  <2>5. Inserting(t)' \in SUBSET I
    BY <1>2, <2>1 DEF Inserting
  <2>6. /\ IsFiniteSet(Inserting(t)') /\ Cardinality(Inserting(t)') <= Cardinality(I)
        /\ Cardinality(Inserting(t)') \in Nat
    BY <2>2, <2>5, FS_Subset, FS_CardinalityType
  <2>7. CASE Correlation!OpenRows(t)' \subseteq Correlation!OpenRows(t) \cup Awaited(t)
    <3>1. Correlation!OpenRows(t)' \cup Awaited(t)' \in SUBSET X
      BY <2>1, <2>4, <2>7
    <3>2. /\ Cardinality(Correlation!OpenRows(t)' \cup Awaited(t)') <= Cardinality(X)
          /\ Cardinality(Correlation!OpenRows(t)' \cup Awaited(t)') \in Nat
      BY <2>2, <3>1, FS_Subset, FS_CardinalityType
    <3> QED
      BY <2>2, <2>3, <2>6, <3>2
  <2>8. CASE t = s /\ workerAt[w] = "insert" /\ \E n :
               Correlation!OpenRows(s)' \subseteq Correlation!OpenRows(s) \cup {n}
    <3>1. PICK n : Correlation!OpenRows(s)' \subseteq Correlation!OpenRows(s) \cup {n}
      BY <2>8
    <3>2. Correlation!OpenRows(t)' \cup Awaited(t)' \in SUBSET (X \cup {n})
      BY <2>1, <2>4, <2>8, <3>1
    <3>3. IsFiniteSet(X \cup {n}) /\ Cardinality(X \cup {n}) <= Cardinality(X) + 1
      <4>1. /\ IsFiniteSet(X \cup {n})
            /\ \/ Cardinality(X \cup {n}) = Cardinality(X) + 1
               \/ Cardinality(X \cup {n}) = Cardinality(X)
        BY <2>2, FS_AddElement
      <4> QED
        BY <2>2, <4>1
    <3>4. /\ Cardinality(Correlation!OpenRows(t)' \cup Awaited(t)') <= Cardinality(X \cup {n})
          /\ Cardinality(Correlation!OpenRows(t)' \cup Awaited(t)') \in Nat
          /\ Cardinality(X \cup {n}) \in Nat
      BY <3>2, <3>3, FS_Subset, FS_CardinalityType
    <3>5. w \in I /\ Inserting(t)' = I \ {w}
      BY <1>2, <2>1, <2>8 DEF Inserting
    <3>6. Cardinality(Inserting(t)') = Cardinality(I) - 1
      BY <2>2, <3>5, FS_RemoveElement
    <3> QED
      BY <2>2, <2>3, <3>3, <3>4, <3>6
  <2>9. CASE t # s
    BY <2>7, <2>9
  <2> QED
    BY <2>7, <2>8, <2>9
<1> QED
  BY <1>3, <1>4, <1>5, <1>6, <1>7 DEF CorrelationInv

LEMMA CountKeeps ==
  ASSUME Correlation!BoundAssumption, CorrelationInv, NEW w \in Goroutine, Correlation!Count(w)
  PROVE  CorrelationInv'
<1>0. PICK s, n, old, new :
             /\ s = event[w] /\ n = found[w] /\ old = incidents[found[w]]
             /\ new = Correlation!OneMore(old)
  OBVIOUS
<1>1. /\ workerAt[w] = "count"
      /\ incidents' = [incidents EXCEPT ![n] = new]
      /\ Correlation!Done(w)
      /\ UNCHANGED <<lost, failures>>
  BY <1>0 DEF Correlation!Count
<1>2. s \in Address /\ n \in Correlation!Rows /\ old.source = s
  BY <1>0, <1>1 DEF CorrelationInv, EventsKnown, Correlation!CountsOwnSource
<1>3. n \in Number /\ incidents[n] = old /\ old \in Correlation!IncidentRow
  BY <1>0, <1>2 DEF CorrelationInv, Correlation!TypeOK, Correlation!Rows
<1>4. /\ new \in Correlation!IncidentRow /\ new.source = s /\ new.count = old.count + 1
      /\ old.count \in Nat
  <2>1. old \in [source : Address, status : Correlation!Status, count : Nat, recent : BOOLEAN]
    BY <1>3 DEF Correlation!IncidentRow
  <2>2. PICK k \in Nat : k = old.count + 1
    BY <2>1
  <2>5. new = [old EXCEPT !.count = k, !.recent = TRUE]
    BY <1>0, <2>2 DEF Correlation!OneMore
  <2>3. new \in [source : Address, status : Correlation!Status, count : Nat, recent : BOOLEAN]
    BY <2>1, <2>5
  <2>4. new.source = old.source /\ new.count = k
    BY <2>1, <2>5
  <2> QED
    BY <1>2, <2>1, <2>2, <2>3, <2>4 DEF Correlation!IncidentRow
<1>5. /\ incidents'[n] = new
      /\ \A m \in Number \ {n} : incidents'[m] = incidents[m]
  BY <1>1, <1>3 DEF CorrelationInv, Correlation!TypeOK
<1>6. incidents'[n] # Nothing
  BY <1>4, <1>5, CorrelationCardinality DEF Correlation!BoundAssumption
<1>7. Correlation!TypeOK'
  <2>1. incidents' \in [Number -> Correlation!IncidentRow \cup {Nothing}]
    BY <1>1, <1>4 DEF CorrelationInv, Correlation!TypeOK
  <2> QED
    BY <1>1, <2>1 DEF Correlation!Done, CorrelationInv, Correlation!TypeOK
<1>8. Correlation!Rows' = Correlation!Rows
  BY <1>2, <1>3, <1>5, <1>6 DEF Correlation!Rows
<1>9. \A m \in Correlation!Rows : incidents'[m].source = incidents[m].source
  BY <1>2, <1>3, <1>4, <1>5 DEF Correlation!Rows
<1>10. \A t \in Address : Correlation!RowsOf(t)' = Correlation!RowsOf(t)
  BY <1>8, <1>9 DEF Correlation!RowsOf
<1>11. ASSUME NEW t \in Address \ {s}
       PROVE  Correlation!Counted(t)' = Correlation!Counted(t) /\
                Correlation!OpenRows(t)' = Correlation!OpenRows(t)
  <2>1. n \notin Correlation!RowsOf(t)
    BY <1>2, <1>3 DEF Correlation!RowsOf
  <2>2. Correlation!Counted(t)' = Correlation!Counted(t)
    BY <1>5, <1>10, <2>1, CountedSame DEF Correlation!RowsOf, Correlation!Rows
  <2>3. Correlation!OpenRows(t)' = Correlation!OpenRows(t)
    BY <1>2, <1>3, <1>4, <1>5, <1>8 DEF Correlation!OpenRows, Correlation!Rows
  <2> QED
    BY <2>2, <2>3
<1>12. Correlation!Counted(s)' = Correlation!Counted(s) \cup {<<n, old.count + 1>>} /\
         <<n, old.count + 1>> \notin Correlation!Counted(s)
  <2>1. n \in Correlation!RowsOf(s) /\ n \in Correlation!RowsOf(s)'
    BY <1>2, <1>3, <1>10 DEF Correlation!RowsOf
  <2>2. \A m \in Correlation!RowsOf(s) \ {n} : incidents'[m].count = incidents[m].count
    BY <1>5 DEF Correlation!RowsOf, Correlation!Rows
  <2>3. 1..(old.count + 1) = (1..old.count) \cup {old.count + 1}
    BY <1>4
  <2>4. ASSUME NEW e
        PROVE  e \in Correlation!Counted(s)' <=> e \in Correlation!Counted(s) \/
                 e = <<n, old.count + 1>>
    <3>1. e \in Correlation!Counted(s) <=> \E m \in Correlation!RowsOf(s) :
            e \in {m} \X (1..incidents[m].count)
      BY CountedMember
    <3>2. e \in Correlation!Counted(s)' <=> \E m \in Correlation!RowsOf(s)' :
            e \in {m} \X (1..incidents'[m].count)
      BY DEF Correlation!Counted
    <3>3. e \in {n} \X (1..incidents'[n].count) <=>
            e \in {n} \X (1..incidents[n].count) \/ e = <<n, old.count + 1>>
      BY <1>3, <1>4, <1>5, <2>3
    <3>4. \A m \in Correlation!RowsOf(s) \ {n} : e \in {m} \X (1..incidents'[m].count) <=>
                                     e \in {m} \X (1..incidents[m].count)
      BY <2>2
    <3> QED
      BY <1>2, <1>10, <2>1, <3>1, <3>2, <3>3, <3>4
  <2>5. <<n, old.count + 1>> \notin Correlation!Counted(s)
    BY <1>3, <1>4, CountedMember
  <2> QED
    BY <2>4, <2>5
<1>13. IsFiniteSet(Correlation!Counted(s)') /\
         Cardinality(Correlation!Counted(s)') = Cardinality(Correlation!Counted(s)) + 1
  <2>1. IsFiniteSet(Correlation!Counted(s))
    BY <1>2 DEF CorrelationInv, CountedFinite
  <2> QED
    BY <1>12, <2>1, FS_AddElement
<1>14. Cardinality(Correlation!Counted(s)') + lost'[s]
         = Cardinality(Correlation!Counted(s)) + lost[s] + 1
  BY <1>1, <1>2, <1>13, FS_CardinalityType DEF CorrelationInv, CountedFinite, Correlation!TypeOK
<1>15. Correlation!OpenRows(s)' \subseteq Correlation!OpenRows(s) \cup Awaited(s)
  <2>1. n \in Awaited(s)
    BY <1>0, <1>1 DEF Awaited, Counting
  <2>2. Correlation!OpenRows(s)' \ {n} \subseteq Correlation!OpenRows(s)
    BY <1>5, <1>8 DEF Correlation!OpenRows, Correlation!Rows
  <2> QED
    BY <2>1, <2>2
<1>16. failures <= failures' /\ failures' \in Nat
  BY <1>1 DEF CorrelationInv, Correlation!TypeOK
<1> QED
  BY <1>0, <1>1, <1>2, <1>7, <1>8, <1>9, <1>11, <1>13, <1>14, <1>15, <1>16, DoneKeeps

(* The event is lost: its statement failed or its number was taken. *)
LEMMA LoseKeeps ==
  ASSUME Correlation!BoundAssumption, CorrelationInv, NEW w \in Goroutine, workerAt[w] # "idle",
           Correlation!Done(w),
         lost' = [lost EXCEPT ![event[w]] = @ + 1], incidents' = incidents,
         failures' \in 0..MaxFaults, failures <= failures'
  PROVE  CorrelationInv'
<1>0. PICK s : s = event[w]
  OBVIOUS
<1>1. s \in Address
  BY <1>0 DEF CorrelationInv, EventsKnown
<1>2. lost'[s] = lost[s] + 1 /\ \A t \in Address \ {s} : lost'[t] = lost[t]
  BY <1>0, <1>1 DEF CorrelationInv, Correlation!TypeOK
<1>3. Correlation!TypeOK'
  BY <1>0, <1>1 DEF Correlation!Done, CorrelationInv, Correlation!TypeOK
<1>4. Correlation!Rows' = Correlation!Rows /\ \A t \in Address :
        Correlation!Counted(t)' = Correlation!Counted(t) /\
          Correlation!OpenRows(t)' = Correlation!OpenRows(t)
  BY DEF Correlation!Rows, Correlation!Counted, Correlation!RowsOf, Correlation!OpenRows
<1>5. IsFiniteSet(Correlation!Counted(s)') /\ Cardinality(Correlation!Counted(s)) \in Nat /\
        lost[s] \in Nat
  BY <1>1, <1>4, FS_CardinalityType DEF CorrelationInv, CountedFinite, Correlation!TypeOK
<1>6. Cardinality(Correlation!Counted(s)') + lost'[s]
        = Cardinality(Correlation!Counted(s)) + lost[s] + 1
  BY <1>1, <1>2, <1>4, <1>5
<1>7. failures' \in Nat
  BY CorrelationCardinality DEF Correlation!BoundAssumption
<1> QED
  BY <1>0, <1>1, <1>2, <1>3, <1>4, <1>5, <1>6, <1>7, DoneKeeps

LEMMA InsertKeeps ==
  ASSUME Correlation!BoundAssumption, CorrelationInv, NEW w \in Goroutine, NEW n \in Number,
           Correlation!Insert(w, n)
  PROVE  CorrelationInv'
<1>0. PICK s : s = event[w]
  OBVIOUS
<1>1. workerAt[w] = "insert" /\ Correlation!Done(w) /\ failures' = failures
  BY DEF Correlation!Insert
<1>2. s \in Address
  BY <1>0, <1>1 DEF CorrelationInv, EventsKnown
<1>3. CASE n \in Correlation!Rows
  <2>1. lost' = [lost EXCEPT ![event[w]] = @ + 1] /\ incidents' = incidents
    BY <1>3 DEF Correlation!Insert
  <2>2. failures' \in 0..MaxFaults /\ failures <= failures'
    BY <1>1, CorrelationCardinality
    DEF CorrelationInv, Correlation!TypeOK, Correlation!BoundAssumption
  <2> QED
    BY <1>1, <2>1, <2>2, LoseKeeps
<1>4. CASE n \notin Correlation!Rows
  <2>0. PICK row : row = [source |-> s, status |-> "INVESTIGATING", count |-> 1, recent |-> TRUE]
    OBVIOUS
  <2>1. incidents' = [incidents EXCEPT ![n] = row] /\ lost' = lost
    BY <1>0, <1>4, <2>0 DEF Correlation!Insert
  <2>2. row \in Correlation!IncidentRow /\ row # Nothing
    <3>1. row \in Correlation!IncidentRow
      BY <1>2, <2>0 DEF Correlation!IncidentRow, Correlation!Status, Correlation!Open
    <3> QED
      BY <3>1, CorrelationCardinality DEF Correlation!BoundAssumption
  <2>3. incidents'[n] = row /\ \A m \in Number \ {n} : incidents'[m] = incidents[m]
    BY <2>1 DEF CorrelationInv, Correlation!TypeOK
  <2>4. Correlation!TypeOK'
    BY <1>1, <2>1, <2>2 DEF Correlation!Done, CorrelationInv, Correlation!TypeOK
  <2>5. Correlation!Rows' = Correlation!Rows \cup {n}
    BY <2>2, <2>3 DEF Correlation!Rows
  <2>6. \A m \in Correlation!Rows : incidents'[m] = incidents[m]
    BY <1>4, <2>3 DEF Correlation!Rows
  <2>7. Correlation!RowsOf(s)' = Correlation!RowsOf(s) \cup {n} /\ \A t \in Address \ {s} :
          Correlation!RowsOf(t)' = Correlation!RowsOf(t)
    BY <2>0, <2>3, <2>5, <2>6 DEF Correlation!RowsOf
  <2>8. ASSUME NEW t \in Address \ {s}
        PROVE  Correlation!Counted(t)' = Correlation!Counted(t) /\
                 Correlation!OpenRows(t)' = Correlation!OpenRows(t)
    <3>1. Correlation!Counted(t)' = Correlation!Counted(t)
      BY <2>6, <2>7, CountedSame DEF Correlation!RowsOf
    <3> QED
      BY <2>0, <2>3, <2>5, <2>6, <3>1 DEF Correlation!OpenRows
  <2>9. Correlation!Counted(s)' = Correlation!Counted(s) \cup {<<n, 1>>} /\
          <<n, 1>> \notin Correlation!Counted(s)
    <3>1. ASSUME NEW e
          PROVE  e \in Correlation!Counted(s)' <=> e \in Correlation!Counted(s) \/ e = <<n, 1>>
      <4>1. e \in Correlation!Counted(s) <=> \E m \in Correlation!RowsOf(s) :
              e \in {m} \X (1..incidents[m].count)
        BY CountedMember
      <4>2. e \in Correlation!Counted(s)' <=> \E m \in Correlation!RowsOf(s)' :
              e \in {m} \X (1..incidents'[m].count)
        BY DEF Correlation!Counted
      <4>3. e \in {n} \X (1..incidents'[n].count) <=> e = <<n, 1>>
        BY <2>0, <2>3
      <4>4. \A m \in Correlation!RowsOf(s) : incidents'[m] = incidents[m]
        BY <2>6 DEF Correlation!RowsOf
      <4> QED
        BY <2>7, <4>1, <4>2, <4>3, <4>4
    <3>2. <<n, 1>> \notin Correlation!Counted(s)
      BY <1>4, CountedMember DEF Correlation!RowsOf
    <3> QED
      BY <3>1, <3>2
  <2>10. IsFiniteSet(Correlation!Counted(s)') /\
           Cardinality(Correlation!Counted(s)') = Cardinality(Correlation!Counted(s)) + 1
    BY <1>2, <2>9, FS_AddElement DEF CorrelationInv, CountedFinite
  <2>11. Cardinality(Correlation!Counted(s)') + lost'[s]
           = Cardinality(Correlation!Counted(s)) + lost[s] + 1
    BY <1>2, <2>1, <2>10, FS_CardinalityType DEF CorrelationInv, CountedFinite, Correlation!TypeOK
  <2>12. Correlation!OpenRows(s)' \subseteq Correlation!OpenRows(s) \cup {n}
    BY <2>5, <2>6 DEF Correlation!OpenRows
  <2>13. failures <= failures' /\ failures' \in Nat
    BY <1>1 DEF CorrelationInv, Correlation!TypeOK
  <2> QED
    BY <1>0, <1>1, <1>2, <2>1, <2>4, <2>5, <2>6, <2>8, <2>10, <2>11, <2>12, <2>13, DoneKeeps
<1> QED
  BY <1>3, <1>4

LEMMA FailKeeps ==
  ASSUME Correlation!BoundAssumption, CorrelationInv, NEW w \in Goroutine,
           Correlation!StatementFails(w)
  PROVE  CorrelationInv'
<1>1. /\ workerAt[w] # "idle" /\ Correlation!Done(w) /\ incidents' = incidents
      /\ lost' = [lost EXCEPT ![event[w]] = @ + 1]
      /\ failures < MaxFaults /\ failures' = failures + 1
  BY DEF Correlation!StatementFails, Correlation!Fault
<1>2. failures' \in 0..MaxFaults /\ failures <= failures'
  BY <1>1, CorrelationCardinality
  DEF CorrelationInv, Correlation!TypeOK, Correlation!BoundAssumption
<1> QED
  BY <1>1, <1>2, LoseKeeps

(* A row whose status or age changes is open only if it was, or its source *)
(* is among those with a reopened incident.                                *)
LEMMA RowChanges ==
  ASSUME Correlation!BoundAssumption, CorrelationInv, NEW n \in Correlation!Rows,
           NEW row \in Correlation!IncidentRow,
         incidents' = [incidents EXCEPT ![n] = row],
         row.source = incidents[n].source, row.count = incidents[n].count,
         reopened' \subseteq Address, reopened \subseteq reopened',
         row.source \notin reopened' =>
           Correlation!OpenRows(row.source)' \subseteq Correlation!OpenRows(row.source),
         UNCHANGED <<workerAt, event, found, events, lost, failures>>
  PROVE  CorrelationInv'
<1>1. n \in Number
  BY DEF Correlation!Rows
<1>2. incidents'[n] = row /\ row # Nothing /\ \A m \in Number \ {n} : incidents'[m] = incidents[m]
  BY <1>1, CorrelationCardinality
  DEF CorrelationInv, Correlation!TypeOK, Correlation!BoundAssumption
<1>3. Correlation!TypeOK'
  BY <1>1 DEF CorrelationInv, Correlation!TypeOK
<1>4. Correlation!Rows' = Correlation!Rows
  BY <1>1, <1>2 DEF Correlation!Rows
<1>5. \A m \in Correlation!Rows :
        incidents'[m].source = incidents[m].source /\ incidents'[m].count = incidents[m].count
  BY <1>2 DEF Correlation!Rows
<1>6. \A t \in Address : Correlation!RowsOf(t)' = Correlation!RowsOf(t)
  BY <1>4, <1>5 DEF Correlation!RowsOf
<1>7. \A t \in Address : Correlation!Counted(t)' = Correlation!Counted(t)
  BY <1>5, <1>6, CountedSame DEF Correlation!RowsOf
<1>8. \A t \in Address :
        /\ Correlation!InFlight(t)' = Correlation!InFlight(t) /\ Awaited(t)' = Awaited(t)
        /\ Inserting(t)' = Inserting(t)
  BY DEF Correlation!InFlight, Awaited, Counting, Inserting
<1>9. EventsKnown' /\ CountedFinite' /\ Correlation!EventsAccounted'
  BY <1>7, <1>8, CorrelationCardinality
  DEF CorrelationInv, EventsKnown, CountedFinite, Correlation!EventsAccounted
<1>10. Correlation!CountsOwnSource'
  BY <1>4, <1>5 DEF CorrelationInv, Correlation!CountsOwnSource
<1>11. OpenBounded'
  <2> SUFFICES ASSUME NEW t \in Address \ reopened'
               PROVE  Cardinality(Correlation!OpenRows(t)' \cup Awaited(t)) + Cardinality(Inserting(t))
                        <= Cardinality(Goroutine) + failures
    BY <1>8 DEF OpenBounded
  <2>1. Correlation!OpenRows(t)' \subseteq Correlation!OpenRows(t)
    <3>1. CASE t = row.source
      BY <3>1
    <3>2. CASE t # row.source
      BY <1>2, <1>4, <3>2 DEF Correlation!OpenRows, Correlation!Rows
    <3> QED
      BY <3>1, <3>2
  <2>2. PICK X, I : X = Correlation!OpenRows(t) \cup Awaited(t) /\ I = Inserting(t)
    OBVIOUS
  <2>3. /\ IsFiniteSet(X) /\ Cardinality(X) \in Nat /\ Cardinality(I) \in Nat
        /\ Cardinality(Goroutine) \in Nat /\ failures \in Nat
    <3>1. failures \in Nat
      BY DEF CorrelationInv, Correlation!TypeOK
    <3>2. Correlation!TypeOK /\ Correlation!CountsOwnSource
      BY DEF CorrelationInv
    <3> QED
      BY <2>2, <3>1, <3>2, CorrelationFinite
  <2>4. Cardinality(X) + Cardinality(I) <= Cardinality(Goroutine) + failures
    BY <2>2 DEF CorrelationInv, OpenBounded
  <2>5. Correlation!OpenRows(t)' \cup Awaited(t) \in SUBSET X
    BY <2>1, <2>2
  <2>6. /\ Cardinality(Correlation!OpenRows(t)' \cup Awaited(t)) <= Cardinality(X)
        /\ Cardinality(Correlation!OpenRows(t)' \cup Awaited(t)) \in Nat
    BY <2>3, <2>5, FS_Subset, FS_CardinalityType
  <2> QED
    BY <2>2, <2>3, <2>4, <2>6
<1> QED
  BY <1>3, <1>9, <1>10, <1>11 DEF CorrelationInv

LEMMA SetStatusKeeps ==
  ASSUME Correlation!BoundAssumption, CorrelationInv, NEW n \in Number,
           NEW st \in Correlation!Status,
         Correlation!SetStatus(n, st)
  PROVE  CorrelationInv'
<1>1. n \in Correlation!Rows /\ incidents[n] \in Correlation!IncidentRow
  BY DEF Correlation!SetStatus, Correlation!Rows, CorrelationInv, Correlation!TypeOK
<1>2. PICK row : row = [incidents[n] EXCEPT !.status = st, !.recent = TRUE]
  OBVIOUS
<1>3. /\ row \in Correlation!IncidentRow /\ row.source = incidents[n].source
      /\ row.count = incidents[n].count /\ row.status = st /\ row.source \in Address
  BY <1>1, <1>2 DEF Correlation!IncidentRow
<1>4. /\ incidents' = [incidents EXCEPT ![n] = row]
      /\ reopened' = IF n \notin Correlation!OpenRows(row.source) /\ st \in Correlation!Open
                     THEN reopened \cup {row.source} ELSE reopened
      /\ UNCHANGED <<workerAt, event, found, events, lost, failures>>
  BY <1>2, <1>3 DEF Correlation!SetStatus, Correlation!worker
<1>5. reopened' \subseteq Address /\ reopened \subseteq reopened'
  BY <1>3, <1>4 DEF CorrelationInv, Correlation!TypeOK
<1>6. row.source \notin reopened' =>
        Correlation!OpenRows(row.source)' \subseteq Correlation!OpenRows(row.source)
  <2>1. incidents'[n] = row /\ \A m \in Number \ {n} : incidents'[m] = incidents[m]
    BY <1>4 DEF CorrelationInv, Correlation!TypeOK
  <2> QED
    BY <1>3, <1>4, <2>1 DEF Correlation!OpenRows, Correlation!Rows
<1> QED
  BY <1>1, <1>3, <1>4, <1>5, <1>6, RowChanges

LEMMA AgeKeeps ==
  ASSUME Correlation!BoundAssumption, CorrelationInv, NEW n \in Number, Correlation!Age(n)
  PROVE  CorrelationInv'
<1>1. n \in Correlation!Rows /\ incidents[n] \in Correlation!IncidentRow
  BY DEF Correlation!Age, Correlation!Rows, CorrelationInv, Correlation!TypeOK
<1>2. PICK row : row = [incidents[n] EXCEPT !.recent = FALSE]
  OBVIOUS
<1>3. /\ row \in Correlation!IncidentRow /\ row.source = incidents[n].source
      /\ row.count = incidents[n].count /\ row.recent = FALSE
  BY <1>1, <1>2 DEF Correlation!IncidentRow
<1>4. /\ incidents' = [incidents EXCEPT ![n] = row]
      /\ UNCHANGED <<workerAt, event, found, events, lost, reopened, failures>>
  BY <1>2, <1>3 DEF Correlation!Age, Correlation!worker
<1>5. reopened' \subseteq Address /\ reopened \subseteq reopened'
  BY <1>4 DEF CorrelationInv, Correlation!TypeOK
<1>6. Correlation!OpenRows(row.source)' \subseteq Correlation!OpenRows(row.source)
  <2>1. incidents'[n] = row /\ \A m \in Number \ {n} : incidents'[m] = incidents[m]
    BY <1>4 DEF CorrelationInv, Correlation!TypeOK
  <2> QED
    BY <1>3, <2>1 DEF Correlation!OpenRows, Correlation!Rows
<1> QED
  BY <1>1, <1>3, <1>4, <1>5, <1>6, RowChanges

(* The end of the process: what was in flight is lost, and nobody awaits a *)
(* row.                                                                    *)
LEMMA CorrelationEnds ==
  ASSUME Correlation!BoundAssumption, CorrelationInv, Correlation!ProcessEnds
  PROVE  CorrelationInv'
<1>1. /\ workerAt' = [w \in Goroutine |-> "idle"]
      /\ event' = [w \in Goroutine |-> Nothing]
      /\ found' = [w \in Goroutine |-> Nothing]
      /\ lost' = [s \in Address |-> lost[s] + Cardinality(Correlation!InFlight(s))]
      /\ failures' = failures + 1 /\ failures < MaxFaults
      /\ UNCHANGED <<incidents, events, reopened>>
  BY CorrelationCardinality DEF Correlation!ProcessEnds, Correlation!Fault
<1>2. Correlation!TypeOK /\ Correlation!CountsOwnSource /\ MaxFaults \in Nat /\
        failures \in Nat /\ failures' \in 0..MaxFaults
  BY <1>1, CorrelationCardinality
  DEF CorrelationInv, Correlation!TypeOK, Correlation!BoundAssumption
<1>3. /\ Correlation!Rows' = Correlation!Rows
      /\ \A s \in Address :
           /\ Correlation!Counted(s)' = Correlation!Counted(s) /\
                Correlation!OpenRows(s)' = Correlation!OpenRows(s)
           /\ Correlation!InFlight(s)' = {} /\ Awaited(s)' = {} /\ Inserting(s)' = {}
  BY <1>1
  DEF Correlation!Rows, Correlation!Counted, Correlation!RowsOf, Correlation!InFlight,
      Correlation!OpenRows, Awaited, Counting, Inserting
<1>4. Correlation!TypeOK'
  <2>1. lost' \in [Address -> Nat]
    <3>1. \A s \in Address : Cardinality(Correlation!InFlight(s)) \in Nat
      BY <1>2, CorrelationFinite
    <3>2. \A s \in Address : lost[s] \in Nat
      BY <1>2 DEF Correlation!TypeOK
    <3>3. \A s \in Address : lost[s] + Cardinality(Correlation!InFlight(s)) \in Nat
      BY <3>1, <3>2
    <3> QED
      BY <1>1, <3>3
  <2> QED
    BY <1>1, <1>2, <2>1 DEF Correlation!TypeOK
<1>5. EventsKnown' /\ Correlation!CountsOwnSource' /\ CountedFinite'
  BY <1>1, <1>3 DEF CorrelationInv, EventsKnown, Correlation!CountsOwnSource, CountedFinite
<1>6. Cardinality({}) = 0
  BY FS_EmptySet
<1>7. Correlation!EventsAccounted'
  <2> SUFFICES ASSUME NEW s \in Address
               PROVE  events[s] = Cardinality(Correlation!Counted(s)) + lost'[s] + Cardinality(Correlation!InFlight(s)')
    BY <1>1, <1>3, CorrelationCardinality DEF Correlation!EventsAccounted
  <2>1. events[s] = Cardinality(Correlation!Counted(s)) + lost[s] + Cardinality(Correlation!InFlight(s))
    BY CorrelationCardinality DEF CorrelationInv, Correlation!EventsAccounted
  <2>2. Cardinality(Correlation!Counted(s)) \in Nat /\ lost[s] \in Nat /\
          Cardinality(Correlation!InFlight(s)) \in Nat
    BY <1>2, CorrelationFinite, FS_CardinalityType
    DEF CorrelationInv, CountedFinite, Correlation!TypeOK
  <2>3. lost'[s] = lost[s] + Cardinality(Correlation!InFlight(s)) /\
          Cardinality(Correlation!InFlight(s)') = 0
    BY <1>1, <1>3, <1>6
  <2> QED
    BY <2>1, <2>2, <2>3
<1>8. OpenBounded'
  <2> SUFFICES ASSUME NEW s \in Address \ reopened
               PROVE  Cardinality(Correlation!OpenRows(s)' \cup Awaited(s)') + Cardinality(Inserting(s)')
                        <= Cardinality(Goroutine) + failures'
    BY <1>1 DEF OpenBounded
  <2>1. PICK X, O, I : X = Correlation!OpenRows(s) \cup Awaited(s) /\
               O = Correlation!OpenRows(s) /\ I = Inserting(s)
    OBVIOUS
  <2>2. /\ IsFiniteSet(X) /\ Cardinality(X) \in Nat /\ Cardinality(I) \in Nat
        /\ Cardinality(O) \in Nat /\ Cardinality(Goroutine) \in Nat
    BY <1>2, <2>1, CorrelationFinite
  <2>3. Cardinality(X) + Cardinality(I) <= Cardinality(Goroutine) + failures
    BY <2>1 DEF CorrelationInv, OpenBounded
  <2>4. O \in SUBSET X
    BY <2>1
  <2>5. Cardinality(O) <= Cardinality(X)
    BY <2>2, <2>4, FS_Subset
  <2>6. Correlation!OpenRows(s)' \cup Awaited(s)' = O /\ Inserting(s)' = {}
    BY <1>3, <2>1
  <2>7. Cardinality(O) <= Cardinality(Goroutine) + failures + 1
    BY <1>2, <2>2, <2>3, <2>5
  <2>8. Cardinality(Correlation!OpenRows(s)' \cup Awaited(s)') + Cardinality(Inserting(s)')
          = Cardinality(O)
    BY <1>6, <2>2, <2>6
  <2>9. Cardinality(Goroutine) + failures' = Cardinality(Goroutine) + failures + 1
    BY <1>1, <1>2, <2>2
  <2> QED
    BY <2>7, <2>8, <2>9
<1> QED
  BY <1>4, <1>5, <1>7, <1>8 DEF CorrelationInv

LEMMA CorrelationStep ==
  ASSUME Correlation!BoundAssumption PROVE CorrelationInv /\
           [Correlation!Next]_(Correlation!vars) => CorrelationInv'
<1> SUFFICES ASSUME CorrelationInv, [Correlation!Next]_(Correlation!vars) PROVE CorrelationInv'
  OBVIOUS
<1>1. CASE UNCHANGED Correlation!vars
  <2>1. UNCHANGED <<incidents, workerAt, event, found, events, lost, reopened, failures>>
    BY <1>1 DEF Correlation!vars, Correlation!worker
  <2>2. /\ Correlation!Rows' = Correlation!Rows
        /\ \A s \in Address :
             /\ Correlation!Counted(s)' = Correlation!Counted(s) /\
                  Correlation!InFlight(s)' = Correlation!InFlight(s)
             /\ Correlation!OpenRows(s)' = Correlation!OpenRows(s) /\ Awaited(s)' = Awaited(s)
             /\ Inserting(s)' = Inserting(s)
    BY <2>1
    DEF Correlation!Rows, Correlation!Counted, Correlation!RowsOf, Correlation!InFlight,
        Correlation!OpenRows, Awaited, Counting, Inserting
  <2> QED
    BY <2>1, <2>2, CorrelationCardinality
    DEF CorrelationInv, Correlation!TypeOK, EventsKnown, CountedFinite, Correlation!EventsAccounted,
                      Correlation!CountsOwnSource, OpenBounded
<1> QED
  BY <1>1, EventLookupKeeps, CountKeeps, InsertKeeps, FailKeeps, SetStatusKeeps, AgeKeeps,
      CorrelationEnds
  DEF Correlation!Next

(* Duplicates are bounded. *)
LEMMA CorrelationSound ==
  ASSUME Correlation!BoundAssumption, CorrelationInv PROVE Correlation!DuplicatesBounded
<1> SUFFICES ASSUME NEW s \in Address \ reopened
             PROVE  Cardinality(Correlation!OpenRows(s)) <= Cardinality(Goroutine) + failures
  BY CorrelationCardinality DEF Correlation!DuplicatesBounded
<1>1. PICK X, O, I : X = Correlation!OpenRows(s) \cup Awaited(s) /\ O = Correlation!OpenRows(s) /\
             I = Inserting(s)
  OBVIOUS
<1>2. /\ IsFiniteSet(X) /\ Cardinality(X) \in Nat /\ Cardinality(I) \in Nat
      /\ Cardinality(O) \in Nat /\ Cardinality(Goroutine) \in Nat /\ failures \in Nat
  <2>1. failures \in Nat
    BY DEF CorrelationInv, Correlation!TypeOK
  <2>2. Correlation!TypeOK /\ Correlation!CountsOwnSource
    BY DEF CorrelationInv
  <2> QED
    BY <1>1, <2>1, <2>2, CorrelationFinite
<1>3. Cardinality(X) + Cardinality(I) <= Cardinality(Goroutine) + failures
  BY <1>1 DEF CorrelationInv, OpenBounded
<1>4. O \in SUBSET X
  BY <1>1
<1>5. Cardinality(O) <= Cardinality(X)
  BY <1>2, <1>4, FS_Subset
<1> QED
  BY <1>1, <1>2, <1>3, <1>5

-----------------------------------------------------------------------------
(* The whole.  A step of detection is a step of each part or leaves it     *)
(* alone.                                                                  *)
LEMMA PartsStep ==
  [Next]_vars => /\ [Windows!Next]_(Windows!vars)
                 /\ [Sessions!Next]_(Sessions!vars)
                 /\ [Correlation!Next]_(Correlation!vars)
                 /\ [Response!Next]_(Response!vars)
BY DEF Next, vars, windowVars, sessionVars, correlationVars, responseVars,
       Windows!vars, Windows!ingest, Sessions!vars, Correlation!vars, Correlation!worker,
       Response!vars, Response!incident, Response!request, Response!history

(* The request windows at every moment of detection. *)
LEMMA WindowsCorrect == Spec => []WindowInv
<1>1. Init => WindowInv
  BY WindowInit, WindowAssumption DEF Init
<1>2. WindowInv /\ [Next]_vars => WindowInv'
  BY PartsStep, WindowStep, WindowAssumption
<1> QED
  BY <1>1, <1>2, PTL DEF Spec

(* The session windows. *)
LEMMA SessionsCorrect == Spec => []SessionInv
<1>1. Init => SessionInv
  BY SessionInit, SessionAssumption DEF Init
<1>2. SessionInv /\ [Next]_vars => SessionInv'
  BY PartsStep, SessionStep, SessionAssumption
<1> QED
  BY <1>1, <1>2, PTL DEF Spec

(* Correlation. *)
LEMMA CorrelationCorrect == Spec => []CorrelationInv
<1>1. Init => CorrelationInv
  BY CorrelationInit, CorrelationAssumption DEF Init
<1>2. CorrelationInv /\ [Next]_vars => CorrelationInv'
  BY PartsStep, CorrelationStep, CorrelationAssumption
<1> QED
  BY <1>1, <1>2, PTL DEF Spec

(* No request of a client counts for two violations, however its requests  *)
(* and evaluations interleave (sequence_engine.go 130-175).                *)
THEOREM ViolationsCorrect == Spec => []ViolationsAreEarned
<1>1. WindowInv => ViolationsAreEarned
  BY DEF WindowInv, ViolationsAreEarned
<1> QED
  BY <1>1, WindowsCorrect, PTL

(* A window whose evaluations are over shows no suspicious sequence: every *)
(* append is followed by an evaluation of what the window then holds       *)
(* (sequence_engine.go 46-176).                                            *)
THEOREM VerdictsCorrect == Spec => []SettledWindowsAreClean
<1>1. WindowInv => SettledWindowsAreClean
  BY DEF WindowInv, SettledWindowsAreClean
<1> QED
  BY <1>1, WindowsCorrect, PTL

(* The requests of a client whose first ones did not overlap are all in    *)
(* one window (sequence_engine.go 34-44).                                  *)
THEOREM OneWindowCorrect == Spec => []OneWindowPerClient
<1>1. WindowInv => OneWindowPerClient
  BY DEF WindowInv, OneWindowPerClient
<1> QED
  BY <1>1, WindowsCorrect, PTL

(* A flagged token is used from two addresses and has eight characters or  *)
(* more; and at rest a token that two addresses used since the process     *)
(* started has been flagged, unless its first uses overlapped              *)
(* (sequence_engine.go 179-228).                                           *)
THEOREM SharedTokensCorrect == Spec => []SharedTokensAreFlagged
<1>1. SessionInv => SharedTokensAreFlagged
  BY SessionsSound, SessionAssumption DEF SessionInv, SharedTokensAreFlagged
<1> QED
  BY <1>1, SessionsCorrect, PTL

(* Each blocked event is counted once, by an incident of its source, is in *)
(* flight, or is lost to a failed statement, a taken number or the end of  *)
(* the process (main.go 3615-3647).                                        *)
THEOREM EventsCorrect == Spec => []EventsAccounted
<1>1. CorrelationInv => EventsAccounted
  BY DEF CorrelationInv, EventsAccounted
<1> QED
  BY <1>1, CorrelationCorrect, PTL

(* A worker counts its event on an incident of its own source (main.go     *)
(* 3627).                                                                  *)
THEOREM SourcesCorrect == Spec => []CountsOwnSource
<1>1. CorrelationInv => CountsOwnSource
  BY DEF CorrelationInv, CountsOwnSource
<1> QED
  BY <1>1, CorrelationCorrect, PTL

(* A source has no more open recent incidents than there are workers and   *)
(* failed queries, unless one was reopened (main.go 3619).                 *)
THEOREM DuplicatesCorrect == Spec => []DuplicatesBounded
<1>1. CorrelationInv => DuplicatesBounded
  BY CorrelationSound, CorrelationAssumption DEF DuplicatesBounded
<1> QED
  BY <1>1, CorrelationCorrect, PTL

-----------------------------------------------------------------------------
(* Response: what its own proofs say, carried over action by action.       *)
Handling == INSTANCE IncidentResponse_proofs WITH Handler <- Goroutine, pc <- handlerAt

LEMMA HandlingCardinality ==
  \A S : /\ Response!Cardinality(S) = Handling!Cardinality(S)
         /\ Response!IsFiniteSet(S) <=> Handling!IsFiniteSet(S)
BY DEF Response!Cardinality, Handling!Cardinality, Response!IsFiniteSet, Handling!IsFiniteSet

LEMMA HandlingAssumption == Handling!BoundAssumption
BY ResponseAssumption, HandlingCardinality DEF Response!BoundAssumption, Handling!BoundAssumption

LEMMA HandlingActions ==
  /\ \A h \in Goroutine :
       /\ \A i \in Incident, new \in Response!Status : Response!Read(h, i, new) =>
            Handling!Read(h, i, new)
       /\ Response!Update(h) => Handling!Update(h)
       /\ Response!Record(h) => Handling!Record(h)
       /\ Response!Block(h) => Handling!Block(h)
       /\ Response!StatementFails(h) => Handling!StatementFails(h)
  /\ \A i \in Incident : /\ Response!ContainCampaign(i) => Handling!ContainCampaign(i)
                         /\ Response!Unblock(i) => Handling!Unblock(i)
  /\ Response!ProcessEnds => Handling!ProcessEnds
<1>1. ASSUME NEW h \in Goroutine, NEW i \in Incident, NEW new \in Response!Status,
             Response!Read(h, i, new)
      PROVE  Handling!Read(h, i, new)
  BY <1>1, HandlingCardinality
  DEF Response!Read, Response!Starts, Response!Busy, Response!Unwritten,
              Response!incident, Handling!Read, Handling!Starts, Handling!Busy,
              Handling!Unwritten, Handling!incident
<1>2. ASSUME NEW h \in Goroutine, Response!Update(h)
      PROVE  Handling!Update(h)
  BY <1>2 DEF Response!Update, Response!Goto, Handling!Update, Handling!Goto
<1>3. ASSUME NEW h \in Goroutine, Response!Record(h)
      PROVE  Handling!Record(h)
  BY <1>3 DEF Response!Record, Response!Goto, Response!AfterRecord, Response!history,
              Handling!Record, Handling!Goto, Handling!AfterRecord, Handling!history
<1>4. ASSUME NEW h \in Goroutine, Response!Block(h)
      PROVE  Handling!Block(h)
  BY <1>4 DEF Response!Block, Response!Goto, Response!history,
              Handling!Block, Handling!Goto, Handling!history
<1>5. ASSUME NEW h \in Goroutine, Response!StatementFails(h)
      PROVE  Handling!StatementFails(h)
  BY <1>5 DEF Response!StatementFails, Response!Goto, Response!AfterRecord,
              Response!incident, Handling!StatementFails, Handling!Goto,
              Handling!AfterRecord, Handling!incident
<1>6. ASSUME NEW i \in Incident, Response!ContainCampaign(i)
      PROVE  Handling!ContainCampaign(i)
  BY <1>6 DEF Response!ContainCampaign, Response!request, Response!history,
              Handling!ContainCampaign, Handling!request, Handling!history
<1>7. ASSUME NEW i \in Incident, Response!Unblock(i)
      PROVE  Handling!Unblock(i)
  BY <1>7 DEF Response!Unblock, Response!request, Handling!Unblock, Handling!request
<1>8. ASSUME Response!ProcessEnds
      PROVE  Handling!ProcessEnds
  BY <1>8, HandlingCardinality
  DEF Response!ProcessEnds, Response!Forgotten, Response!Busy, Response!incident,
      Handling!ProcessEnds, Handling!Forgotten, Handling!Busy, Handling!incident
<1> QED
  BY <1>1, <1>2, <1>3, <1>4, <1>5, <1>6, <1>7, <1>8

LEMMA HandlingSpec == Spec => Handling!Spec
<1>1. Init => Handling!Init
  BY DEF Init, Response!Init, Handling!Init
<1>2. [Response!Next]_(Response!vars) => [Handling!Next]_(Handling!vars)
  <2>1. Response!Next => Handling!Next
    BY HandlingActions DEF Response!Next, Handling!Next, Response!Status, Handling!Status
  <2>2. UNCHANGED Response!vars => UNCHANGED Handling!vars
    BY DEF Response!vars, Response!incident, Response!request, Response!history,
           Handling!vars, Handling!incident, Handling!request, Handling!history
  <2> QED
    BY <2>1, <2>2
<1>3. [Next]_vars => [Handling!Next]_(Handling!vars)
  BY <1>2, PartsStep
<1> QED
  BY <1>1, <1>3, PTL DEF Spec, Handling!Spec

(* An audit entry names statuses the incident has had, and the entries     *)
(* link up where transitions did not overlap and none is missing           *)
(* (risk_posture_engine.go 448-466).                                       *)
THEOREM TrailSound == Spec => []TrailIsSound
<1>1. Handling!TrailIsTrue => Response!TrailIsTrue
  BY DEF Response!TrailIsTrue, Handling!TrailIsTrue, Response!Busy, Handling!Busy
<1>2. Handling!TrailIsChain => Response!TrailIsChain
  BY DEF Response!TrailIsChain, Handling!TrailIsChain, Response!Busy, Handling!Busy,
         Response!Linked, Handling!Linked
<1>3. Handling!TrailIsTrue /\ Handling!TrailIsChain => TrailIsSound
  BY <1>1, <1>2 DEF TrailIsSound
<1>4. Spec => []Handling!TrailIsTrue /\ []Handling!TrailIsChain
  BY HandlingAssumption, HandlingSpec, Handling!TrailCorrect, Handling!ChainCorrect
<1> QED
  BY <1>3, <1>4, PTL

(* At rest RESOLVED has a time, and CONTAINED a blocked attacker, unless   *)
(* the block failed, was lifted, or the process ended before it            *)
(* (risk_posture_engine.go 448-475).                                       *)
THEOREM EffectSound == Spec => []StatusHasEffect
<1>1. Handling!StatusHasEffect => StatusHasEffect
  BY DEF StatusHasEffect, Response!StatusHasEffect, Handling!StatusHasEffect,
         Response!Busy, Handling!Busy
<1>2. Spec => []Handling!StatusHasEffect
  BY HandlingAssumption, HandlingSpec, Handling!EffectCorrect
<1> QED
  BY <1>1, <1>2, PTL

(* The variables of all parts have their types. *)
THEOREM TypesCorrect == Spec => []TypeOK
<1>1. Handling!TypeOK => Response!TypeOK
  BY DEF Response!TypeOK, Handling!TypeOK, Response!Status, Handling!Status,
         Response!Entry, Handling!Entry
<1>2. WindowInv /\ SessionInv /\ CorrelationInv /\ Handling!TypeOK => TypeOK
  BY <1>1 DEF WindowInv, SessionInv, CorrelationInv, TypeOK
<1>3. Spec => []Handling!TypeOK
  BY HandlingAssumption, HandlingSpec, Handling!TypeCorrect
<1> QED
  BY <1>2, <1>3, WindowsCorrect, SessionsCorrect, CorrelationCorrect, PTL
=============================================================================
