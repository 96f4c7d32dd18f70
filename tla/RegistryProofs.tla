--------------------------- MODULE RegistryProofs ---------------------------
(***************************************************************************)
(* Proofs about Versions and Registry: for any tags, images, size of the   *)
(* page and order in which the tags are listed.                            *)
(***************************************************************************)
EXTENDS Registry, SequenceTheorems, WellFoundedInduction, TLAPS

(* A check has its fields; tags are only listed for semantic versions.     *)
CheckType ==
    check \in [pc : {"idle", "host", "ask", "token", "search", "done"},
               image : Images \union {NoImage}, request : {"tags", "manifest"},
               granted : BOOLEAN, checked : BOOLEAN, left : SUBSET Tags,
               best : Tags \union {NoTag}, digest : Digests \union {NoDigest},
               page : SUBSET Tags, had : [Tags -> SUBSET (Digests \union {Gone})]]

SearchInv ==
    /\ check.pc = "host" => ~check.checked /\ check.best = NoTag
    /\ check.pc \in {"ask", "token"} /\ check.request = "tags"
         => Semantic(check.image) /\ check.best = NoTag
    /\ check.checked => Semantic(check.image)
    /\ check.best # NoTag => check.checked /\ IsSemantic(check.best)
    /\ check.pc = "search" => check.checked
    /\ check.left \subseteq check.page

CheckInv == CheckType /\ catalog \in [Tags -> Digests \union {Gone}] /\ SearchInv /\ OfferIsNewest

-----------------------------------------------------------------------------
(* A semantic tag is a version.                                            *)
LEMMA ParsedIsVersion ==
    ASSUME NEW t \in Tags, IsSemantic(t)
    PROVE  parseSemanticTag(t) \in Version
<1>1. Parts[t] \in Seq(Nat \union {NaN})
  BY PartsAssumption
<1>2. \A i \in 1..Len(Parts[t]) : Parts[t][i] \in Nat
  BY <1>1 DEF IsSemantic
<1>3. Len(Parts[t]) \in Nat
  BY <1>1
<1> QED
  BY <1>2, <1>3 DEF parseSemanticTag, Version

(* compareSemanticVersion by its cases.                                    *)
LEMMA NewerCases ==
    ASSUME NEW a \in Version, NEW b \in Version
    PROVE  Newer(a, b) <=> \/ a[1] > b[1]
                           \/ a[1] = b[1] /\ a[2] > b[2]
                           \/ a[1] = b[1] /\ a[2] = b[2] /\ a[3] > b[3]
<1> USE DEF Version
<1>1. ASSUME a[1] > b[1] PROVE Newer(a, b)
  BY <1>1 DEF Newer
<1>2. ASSUME a[1] = b[1], a[2] > b[2] PROVE Newer(a, b)
  <2>1. \A j \in 1..2-1 : a[j] = b[j]
    BY <1>2
  <2> QED
    BY <1>2, <2>1 DEF Newer
<1>3. ASSUME a[1] = b[1], a[2] = b[2], a[3] > b[3] PROVE Newer(a, b)
  <2>1. \A j \in 1..3-1 : a[j] = b[j]
    BY <1>3
  <2> QED
    BY <1>3, <2>1 DEF Newer
<1>4. ASSUME NEW i \in 1..3, a[i] > b[i], \A j \in 1..i-1 : a[j] = b[j]
      PROVE  \/ a[1] > b[1]
             \/ a[1] = b[1] /\ a[2] > b[2]
             \/ a[1] = b[1] /\ a[2] = b[2] /\ a[3] > b[3]
  <2>1. i = 1 \/ i = 2 \/ i = 3
    OBVIOUS
  <2> QED
    BY <1>4, <2>1
<1> QED
  BY <1>1, <1>2, <1>3, <1>4 DEF Newer

(* Versions are in a strict total order: what the search for the newest    *)
(* (registry.go 29-38) takes for granted of compareSemanticVersion.        *)
THEOREM NewerIsStrictOrder ==
    ASSUME NEW a \in Version, NEW b \in Version, NEW c \in Version
    PROVE  /\ ~Newer(a, a)
           /\ Newer(a, b) => ~Newer(b, a)
           /\ Newer(a, b) /\ Newer(b, c) => Newer(a, c)
           /\ Newer(a, b) \/ Newer(b, a) \/ a = b
<1> USE DEF Version
<1>1. ~Newer(a, a) /\ (Newer(a, b) => ~Newer(b, a))
  BY NewerCases
<1>2. Newer(a, b) /\ Newer(b, c) => Newer(a, c)
  BY NewerCases
<1>3. a[1] = b[1] /\ a[2] = b[2] /\ a[3] = b[3] => a = b
  <2> SUFFICES ASSUME a[1] = b[1] /\ a[2] = b[2] /\ a[3] = b[3] PROVE a = b
    OBVIOUS
  <2>1. \A i \in 1..3 : i = 1 \/ i = 2 \/ i = 3
    OBVIOUS
  <2>2. \A i \in 1..3 : a[i] = b[i]
    BY <2>1
  <2> QED
    BY <2>2
<1>4. Newer(a, b) \/ Newer(b, a) \/ a = b
  BY <1>3, NewerCases
<1> QED
  BY <1>1, <1>2, <1>4

-----------------------------------------------------------------------------
(* A set of natural numbers has a least element. This is induction without *)
(* a predicate as a parameter.                                             *)
LEMMA LeastExists ==
    ASSUME NEW T \in SUBSET Nat, T # {}
    PROVE  \E m \in T : \A i \in T : m <= i
<1> DEFINE less == {ss \in Nat \X Nat : ss[1] < ss[2]}
<1>1. IsWellFoundedOn(less, Nat)
  BY NatLessThanWellFounded DEF OpToRel
<1> HIDE DEF less
<1>2. PICK m \in T : \A i \in T : <<i, m>> \notin less
  BY <1>1, WFMin
<1>3. \A i \in T : ~(i < m)
  BY <1>2 DEF less
<1> QED
  BY <1>3

(* A bounded set of natural numbers has a greatest element.                *)
LEMMA GreatestExists ==
    ASSUME NEW n \in Nat, NEW T \in SUBSET (1..n), T # {}
    PROVE  \E m \in T : \A i \in T : m >= i
<1> DEFINE below == {n - i : i \in T}
<1>1. below \in SUBSET Nat /\ below # {}
  <2>1. \A i \in T : n - i \in Nat
    OBVIOUS
  <2> QED
    BY <2>1
<1>2. PICK d \in below : \A e \in below : d <= e
  BY <1>1, LeastExists
<1>3. PICK m \in T : d = n - m
  OBVIOUS
<1>4. \A i \in T : n - i \in below
  OBVIOUS
<1>5. \A i \in T : m >= i
  BY <1>2, <1>3, <1>4
<1> QED
  BY <1>5

(* LastIndex (strings.LastIndex) finds the token, unless it is not there,  *)
(* and no later one.                                                       *)
LEMMA LastIndexFinds ==
    ASSUME NEW s, Len(s) \in Nat, NEW t
    PROVE  /\ LastIndex(s, t) \in 0..Len(s)
           /\ LastIndex(s, t) > 0 => s[LastIndex(s, t)] = t
           /\ \A i \in 1..Len(s) : i > LastIndex(s, t) => s[i] # t
<1> DEFINE found == {i \in 1..Len(s) : s[i] = t}
<1>1. LastIndex(s, t) = IF found # {} THEN Max(found) ELSE 0
  BY DEF LastIndex, SelectLastInSeq
<1>2. \A i : i \in found <=> i \in 1..Len(s) /\ s[i] = t
  OBVIOUS
<1> HIDE DEF found
<1>3. CASE found # {}
  <2>1. found \in SUBSET (1..Len(s))
    BY <1>2
  <2>2. \E m \in found : \A i \in found : m >= i
    BY <1>3, <2>1, GreatestExists
  <2>3. Max(found) \in found /\ \A i \in found : Max(found) >= i
    BY <2>2 DEF Max
  <2> QED
    BY <1>1, <1>2, <1>3, <2>3
<1> QED
  BY <1>1, <1>2, <1>3

(* So the last place of a token is what it finds.                          *)
LEMMA LastIndexIs ==
    ASSUME NEW s, Len(s) \in Nat, NEW t, NEW n \in 1..Len(s), s[n] = t,
           \A i \in 1..Len(s) : i > n => s[i] # t
    PROVE  LastIndex(s, t) = n
<1> DEFINE last == LastIndex(s, t)
<1>1. last \in 0..Len(s) /\ ~(n > last) /\ (last > 0 => s[last] = t)
  BY LastIndexFinds
<1>2. last \in 1..Len(s) /\ last >= n
  BY <1>1
<1> HIDE DEF last
<1>3. ~(last > n)
  BY <1>1, <1>2
<1> QED
  BY <1>2, <1>3 DEF last

(* FirstIndex finds the token, unless it is not there, and no earlier one. *)
LEMMA FirstIndexFinds ==
    ASSUME NEW s, Len(s) \in Nat, NEW t
    PROVE  /\ FirstIndex(s, t) \in 0..Len(s)
           /\ FirstIndex(s, t) > 0 => s[FirstIndex(s, t)] = t
           /\ FirstIndex(s, t) = 0 => \A i \in 1..Len(s) : s[i] # t
           /\ \A i \in 1..Len(s) : i < FirstIndex(s, t) => s[i] # t
<1> DEFINE found == {i \in 1..Len(s) : s[i] = t}
<1>1. FirstIndex(s, t) = IF found # {} THEN Min(found) ELSE 0
  BY DEF FirstIndex, SelectInSeq
<1>2. \A i : i \in found <=> i \in 1..Len(s) /\ s[i] = t
  OBVIOUS
<1> HIDE DEF found
<1>3. CASE found # {}
  <2>1. found \in SUBSET Nat
    BY <1>2
  <2>2. \E m \in found : \A i \in found : m <= i
    BY <1>3, <2>1, LeastExists
  <2>3. Min(found) \in found /\ \A i \in found : Min(found) <= i
    BY <2>2 DEF Min
  <2> QED
    BY <1>1, <1>2, <1>3, <2>3
<1> QED
  BY <1>1, <1>2, <1>3

Token == STRING \union Tags \union Digests \union Separators

(* The image without tag and digest.                                       *)
Base(image) ==
    (IF image.host = <<>> THEN <<>> ELSE image.host \o <<"/">>) \o image.path

(* What the name of a reference ends before: nothing, ":" and a tag, or    *)
(* "@" and a digest.                                                       *)
LEMMA NameEndsBefore ==
    ASSUME NEW name \in Seq(Token), \A i \in 1..Len(name) : name[i] # "@",
           NEW rest \in Seq(Token), \A i \in 1..Len(rest) : rest[i] \notin Separators,
           NEW sep \in {":", "@"}
    PROVE  LET s == name \o (<<sep>> \o rest)
           IN  /\ s \in Seq(Token) /\ Len(s) = Len(name) + 1 + Len(rest)
               /\ NameEnd(s) = Len(name) /\ SubSeq(s, 1, NameEnd(s)) = name
               /\ Len(rest) = 1 => Last(s) = rest[1]
<1> DEFINE s == name \o (<<sep>> \o rest)
           n == Len(name)
<1>1. sep \in Token /\ <<sep>> \in Seq(Token) /\ Len(<<sep>>) = 1 /\ <<sep>>[1] = sep
  <2>1. sep \in Token
    BY DEF Token, Separators
  <2> QED
    BY <2>1
<1>2. /\ <<sep>> \o rest \in Seq(Token) /\ Len(<<sep>> \o rest) = 1 + Len(rest)
      /\ (<<sep>> \o rest)[1] = sep
      /\ \A i \in 2..1 + Len(rest) : (<<sep>> \o rest)[i] = rest[i - 1]
  BY <1>1, ConcatProperties
<1>3. /\ s \in Seq(Token) /\ Len(s) = n + 1 + Len(rest) /\ n \in Nat /\ Len(rest) \in Nat
      /\ \A i \in 1..n : s[i] = name[i]
      /\ s[n + 1] = sep
      /\ \A i \in n + 2..Len(s) : s[i] = rest[i - n - 1]
  <2>1. /\ s \in Seq(Token) /\ Len(s) = n + 1 + Len(rest) /\ n \in Nat /\ Len(rest) \in Nat
        /\ \A i \in 1..n + 1 + Len(rest) : s[i] = IF i <= n THEN name[i] ELSE (<<sep>> \o rest)[i - n]
    BY <1>2, ConcatProperties
  <2>2. s[n + 1] = sep
    BY <1>2, <2>1
  <2>3. ASSUME NEW i \in n + 2..Len(s) PROVE s[i] = rest[i - n - 1]
    <3>1. i - n \in 2..1 + Len(rest) /\ (i - n) - 1 = i - n - 1 /\ ~(i <= n)
      BY <2>1
    <3> QED
      BY <1>2, <2>1, <3>1
  <2> QED
    BY <2>1, <2>2, <2>3
<1> HIDE DEF s
<1>4. /\ Len(s) \in Nat /\ n + 1 \in 1..Len(s) /\ s[n + 1] = sep
      /\ \A i \in 1..Len(s) : i > n + 1 => s[i] \notin Separators
      /\ \A i \in 1..Len(s) : i < n + 1 => s[i] # "@"
  <2>1. ASSUME NEW i \in 1..Len(s), i > n + 1 PROVE s[i] \notin Separators
    <3>1. i \in n + 2..Len(s) /\ i - n - 1 \in 1..Len(rest)
      BY <1>3, <2>1
    <3> QED
      BY <1>3, <3>1
  <2>2. \A i \in 1..Len(s) : i < n + 1 => i \in 1..n
    BY <1>3
  <2>3. \A i \in 1..Len(s) : i < n + 1 => s[i] # "@"
    BY <1>3, <2>2
  <2> QED
    BY <1>3, <2>1, <2>3
<1>5. NameEnd(s) = n
  <2>1. \A t \in Separators : \A i \in 1..Len(s) : i > n + 1 => s[i] # t
    BY <1>4
  <2>2. LastIndex(s, sep) = n + 1
    BY <1>4, <2>1, LastIndexIs DEF Separators
  <2>3. CASE sep = "@"
    BY <1>3, <2>2, <2>3 DEF NameEnd
  <2>4. CASE sep = ":"
    <3> DEFINE at == LastIndex(s, "@")
               slash == LastIndex(s, "/")
    <3>1. at \in 0..Len(s) /\ (at > 0 => s[at] = "@")
      BY <1>4, LastIndexFinds
    <3>2. slash \in 0..Len(s) /\ (slash > 0 => s[slash] = "/")
      BY <1>4, LastIndexFinds
    <3> HIDE DEF at, slash
    <3>3. at = 0
      BY <1>4, <2>1, <2>4, <3>1 DEF Separators
    <3>4. slash < n + 1
      BY <1>4, <2>1, <2>4, <3>2 DEF Separators
    <3> QED
      BY <1>3, <2>2, <2>4, <3>3, <3>4 DEF NameEnd, at, slash
  <2> QED
    BY <2>3, <2>4
<1>6. SubSeq(s, 1, n) = name
  <2>1. \A i \in 1..n : s[i] \in Token
    BY <1>3
  <2>2. /\ SubSeq(s, 1, n) \in Seq(Token) /\ Len(SubSeq(s, 1, n)) = n
        /\ \A i \in 1..n : SubSeq(s, 1, n)[i] = s[i]
    BY <1>3, <2>1, SubSeqProperties
  <2> QED
    BY <1>3, <2>2, SeqEqual
<1>7. Len(rest) = 1 => Last(s) = rest[1]
  BY <1>3 DEF Last
<1> QED
  BY <1>3, <1>5, <1>6, <1>7 DEF s

(* What it is then asked for.                                              *)
LEMMA ReferenceIs ==
    ASSUME NEW name \in Seq(Token), \A i \in 1..Len(name) : name[i] # "@",
           NEW rest \in Seq(Token), Len(rest) = 1, rest[1] \notin Separators,
           NEW sep \in {":", "@"}
    PROVE  Reference(name \o (<<sep>> \o rest)) = rest[1]
<1> DEFINE s == name \o (<<sep>> \o rest)
<1>1. \A i \in 1..Len(rest) : rest[i] \notin Separators
  OBVIOUS
<1>2. Len(s) = Len(name) + 1 + Len(rest) /\ NameEnd(s) = Len(name) /\ Last(s) = rest[1]
  <2>1. /\ name \in Seq(Token) /\ \A i \in 1..Len(name) : name[i] # "@"
        /\ rest \in Seq(Token) /\ Len(rest) = 1 /\ sep \in {":", "@"}
    OBVIOUS
  <2> QED
    BY ONLY <1>1, <2>1, NameEndsBefore, ZenonT(60)
<1> HIDE DEF s
<1>3. NameEnd(s) # Len(s)
  <2>1. Len(name) \in Nat
    OBVIOUS
  <2> QED
    BY <1>2, <2>1
<1> QED
  BY <1>2, <1>3 DEF Reference, s

(* Two sequences with one element between them.                            *)
LEMMA Joined ==
    ASSUME NEW S, NEW s \in Seq(S), NEW x \in S, NEW t \in Seq(S)
    PROVE  LET j == (s \o <<x>>) \o t
           IN  /\ j \in Seq(S) /\ Len(j) = Len(s) + 1 + Len(t)
               /\ \A i \in 1..Len(s) : j[i] = s[i]
               /\ j[Len(s) + 1] = x
               /\ \A i \in 1..Len(t) : j[Len(s) + 1 + i] = t[i]
<1> DEFINE f == s \o <<x>>
           n == Len(s)
<1>1. n \in Nat /\ Len(t) \in Nat /\ <<x>> \in Seq(S)
  OBVIOUS
<1>2. /\ f \in Seq(S) /\ Len(f) = n + 1
      /\ \A i \in 1..n + 1 : f[i] = IF i <= n THEN s[i] ELSE <<x>>[i - n]
  BY <1>1, ConcatProperties
<1>3. f[n + 1] = x /\ \A i \in 1..n : f[i] = s[i]
  BY <1>1, <1>2
<1> HIDE DEF f, n
<1>4. /\ f \o t \in Seq(S) /\ Len(f \o t) = Len(f) + Len(t)
      /\ \A i \in 1..Len(f) + Len(t) : (f \o t)[i] = IF i <= Len(f) THEN f[i] ELSE t[i - Len(f)]
  BY <1>2, ConcatProperties
<1>5. \A i \in 1..n + 1 : (f \o t)[i] = f[i]
  BY <1>1, <1>2, <1>4
<1>6. ASSUME NEW i \in 1..Len(t) PROVE (f \o t)[n + 1 + i] = t[i]
  <2>1. n + 1 + i \in 1..n + 1 + Len(t) /\ ~(n + 1 + i <= n + 1) /\ (n + 1 + i) - (n + 1) = i
    BY <1>1
  <2> QED
    BY <1>2, <1>4, <2>1
<1> QED
  BY <1>1, <1>2, <1>3, <1>4, <1>5, <1>6 DEF f, n

(* The path of an image is behind its registry and a "/".                  *)
PathFrom(image) == IF image.host = <<>> THEN 0 ELSE Len(image.host) + 1

LEMMA BaseFacts ==
    ASSUME NEW image, WellFormed(image)
    PROVE  LET b == Base(image)
               h == PathFrom(image)
           IN  /\ b \in Seq(Token) /\ Len(b) = h + Len(image.path)
               /\ h \in {0, 2, 4} /\ Len(image.path) \in Nat \ {0}
               /\ \A i \in 1..h : b[i] = IF i = h THEN "/" ELSE image.host[i]
               /\ \A i \in 1..Len(image.path) : b[h + i] = image.path[i]
<1> DEFINE host == image.host
           path == image.path
<1>1. host \in Seq(Token) /\ path \in Seq(Token) /\ Len(host) \in {0, 1, 3} /\ Len(path) \in Nat \ {0}
  <2>1. host \in Seq(STRING) /\ path \in Seq(STRING)
    BY DEF WellFormed, Image
  <2>2. \A seq \in Seq(STRING) : seq \in Seq(Token)
    BY DEF Token
  <2>3. Len(path) # 0
    BY DEF WellFormed
  <2> QED
    BY <2>1, <2>2, <2>3 DEF WellFormed
<1>2. CASE host = <<>>
  <2>1. Base(image) = path
    BY <1>1, <1>2, ConcatEmptySeq DEF Base
  <2> QED
    BY <1>1, <1>2, <2>1 DEF PathFrom
<1>3. CASE host # <<>>
  <2>1. "/" \in Token /\ <<"/">> \in Seq(Token) /\ Len(<<"/">>) = 1 /\ <<"/">>[1] = "/"
    <3>1. "/" \in Token
      BY DEF Token, Separators
    <3> QED
      BY <3>1
  <2>2. Len(host) \in {1, 3} /\ PathFrom(image) = Len(host) + 1
    BY <1>1, <1>3, EmptySeq DEF PathFrom
  <2>3. Base(image) = (host \o <<"/">>) \o path
    BY <1>3 DEF Base
  <2> HIDE DEF host, path
  <2>4. /\ (host \o <<"/">>) \o path \in Seq(Token)
        /\ Len((host \o <<"/">>) \o path) = Len(host) + 1 + Len(path)
        /\ \A i \in 1..Len(host) : ((host \o <<"/">>) \o path)[i] = host[i]
        /\ ((host \o <<"/">>) \o path)[Len(host) + 1] = "/"
        /\ \A i \in 1..Len(path) : ((host \o <<"/">>) \o path)[Len(host) + 1 + i] = path[i]
    BY <1>1, <2>1, Joined
  <2> DEFINE b == Base(image)
             h == PathFrom(image)
  <2>5. /\ b \in Seq(Token) /\ Len(b) = h + Len(path) /\ h \in {2, 4}
        /\ \A i \in 1..Len(host) : b[i] = host[i]
        /\ b[h] = "/"
        /\ \A i \in 1..Len(path) : b[h + i] = path[i]
    <3> DEFINE n == Len(host)
    <3>1. n \in {1, 3} /\ h = n + 1
      BY <2>2
    <3>2. b = (host \o <<"/">>) \o path
      BY <2>3
    <3> HIDE DEF b, h, n
    <3>3. \A i \in 1..Len(path) : n + 1 + i = h + i
      BY <3>1
    <3>4. /\ b \in Seq(Token) /\ Len(b) = n + 1 + Len(path)
          /\ \A i \in 1..n : b[i] = host[i]
          /\ b[n + 1] = "/"
          /\ \A i \in 1..Len(path) : b[n + 1 + i] = path[i]
      BY <2>4, <3>2 DEF n
    <3>5. \A i \in 1..Len(path) : b[h + i] = path[i]
      BY <3>3, <3>4
    <3>6. h \in {2, 4} /\ b[h] = "/"
      BY <3>1, <3>4
    <3>7. Len(b) = h + Len(path)
      BY <1>1, <3>1, <3>4
    <3>8. \A i \in 1..Len(host) : b[i] = host[i]
      BY <3>4 DEF n
    <3> QED
      BY <3>4, <3>5, <3>6, <3>7, <3>8
  <2> HIDE DEF b, h
  <2>6. \A i \in 1..h : b[i] = IF i = h THEN "/" ELSE host[i]
    <3>1. \A i \in 1..h : i # h => i \in 1..Len(host)
      BY <2>2 DEF h
    <3> QED
      BY <2>5, <3>1
  <2> QED
    BY <1>1, <2>5, <2>6 DEF host, path, b, h
<1> QED
  BY <1>2, <1>3

(* Without a tag and a digest, an image is its name.                       *)
LEMMA BaseEnds ==
    ASSUME NEW image, WellFormed(image)
    PROVE  /\ \A i \in 1..Len(Base(image)) : Base(image)[i] # "@"
           /\ NameEnd(Base(image)) = Len(Base(image))
<1> DEFINE b == Base(image)
           h == PathFrom(image)
           colon == LastIndex(b, ":")
           slash == LastIndex(b, "/")
<1>1. /\ b \in Seq(Token) /\ Len(b) = h + Len(image.path) /\ Len(b) \in Nat
      /\ h \in {0, 2, 4} /\ Len(image.path) \in Nat
      /\ \A i \in 1..h : b[i] = IF i = h THEN "/" ELSE image.host[i]
      /\ \A i \in 1..Len(image.path) : b[h + i] = image.path[i]
  BY BaseFacts
<1>2. \A i \in 1..Len(image.path) : image.path[i] # ":" /\ image.path[i] # "@"
  BY DEF WellFormed, Separators
<1>3. \A i \in 1..h - 1 : image.host[i] # "@"
  BY DEF WellFormed, Separators, PathFrom
<1> HIDE DEF b, h
<1>4. \A i \in h + 1..Len(b) : b[i] # ":" /\ b[i] # "@"
  <2> SUFFICES ASSUME NEW i \in h + 1..Len(b) PROVE b[i] # ":" /\ b[i] # "@"
    OBVIOUS
  <2>1. PICK j \in 1..Len(image.path) : i = h + j
    <3>1. i - h \in 1..Len(image.path) /\ h + (i - h) = i
      BY <1>1
    <3> QED
      BY <3>1
  <2> QED
    BY <1>1, <1>2, <2>1
<1>5. \A i \in 1..Len(b) : b[i] # "@"
  <2>1. \A i \in 1..h : b[i] # "@"
    BY <1>1, <1>3
  <2> QED
    BY <1>1, <1>4, <2>1
<1>6. LastIndex(b, "@") = 0
  BY <1>1, <1>5, LastIndexFinds
<1>7. colon \in Nat /\ slash \in Nat /\ colon <= slash
  <2>1. colon \in 0..Len(b) /\ (colon > 0 => b[colon] = ":")
    BY <1>1, LastIndexFinds
  <2>2. slash \in 0..Len(b) /\ \A i \in 1..Len(b) : i > slash => b[i] # "/"
    BY <1>1, LastIndexFinds
  <2>3. h > 0 => h \in 1..Len(b) /\ b[h] = "/"
    BY <1>1
  <2>4. h > 0 => slash >= h
    BY <1>1, <2>2, <2>3
  <2> HIDE DEF colon, slash
  <2>5. colon <= h
    BY <1>1, <1>4, <2>1
  <2> QED
    BY <1>1, <2>1, <2>2, <2>4, <2>5
<1>8. NameEnd(b) = Len(b)
  BY <1>1, <1>6, <1>7 DEF NameEnd
<1> QED
  BY <1>5, <1>8 DEF b

(* The name of an image, what is left of it without its digest or, if it   *)
(* has none, without its tag.                                              *)
NamePart(s) == SubSeq(s, 1, NameEnd(s))

(* What the code takes for the name of an image is the image without tag   *)
(* and digest, but for an image with both; there is no "@" in it. What is  *)
(* behind it is the tag or the digest.                                     *)
LEMMA NameParts ==
    ASSUME NEW image, WellFormed(image)
    PROVE  /\ NamePart(Name(image)) \in Seq(Token)
           /\ \A i \in 1..Len(NamePart(Name(image))) : NamePart(Name(image))[i] # "@"
           /\ image.tag = <<>> \/ image.digest = <<>> => NamePart(Name(image)) = Base(image)
           /\ Reference(Name(image)) \in {"latest"} \union Tags \union Digests
<1> DEFINE b == Base(image)
           tag == IF image.tag = <<>> THEN <<>> ELSE <<":">> \o image.tag
           digest == IF image.digest = <<>> THEN <<>> ELSE <<"@">> \o image.digest
<1>1. b \in Seq(Token) /\ NameEnd(b) = Len(b) /\ \A i \in 1..Len(b) : b[i] # "@"
  BY BaseFacts, BaseEnds
<1>2. /\ image.tag \in Seq(Token) /\ \A i \in 1..Len(image.tag) : image.tag[i] \notin Separators
      /\ image.digest \in Seq(Token)
      /\ \A i \in 1..Len(image.digest) : image.digest[i] \notin Separators
      /\ image.tag # <<>> => Len(image.tag) = 1 /\ image.tag[1] \in Tags
      /\ image.digest # <<>> => Len(image.digest) = 1 /\ image.digest[1] \in Digests
  <2>1. image.tag \in Seq(Tags) /\ image.digest \in Seq(Digests)
    BY DEF WellFormed, Image
  <2>2. Separators \intersect (Tags \union Digests) = {}
    BY ImagesAssumption
  <2>3. Len(image.tag) <= 1 /\ Len(image.digest) <= 1
    BY DEF WellFormed
  <2>4. image.tag # <<>> => Len(image.tag) = 1 /\ image.tag[1] \in Tags
    <3> SUFFICES ASSUME image.tag # <<>>
                 PROVE  Len(image.tag) = 1 /\ image.tag[1] \in Tags
      OBVIOUS
    <3>1. Len(image.tag) \in Nat /\ Len(image.tag) # 0
      BY <2>1, EmptySeq
    <3>2. \A n \in Nat : n # 0 /\ n <= 1 => n = 1
      OBVIOUS
    <3>3. Len(image.tag) = 1
      BY <2>3, <3>1, <3>2, Zenon
    <3> QED
      BY <2>1, <3>3, ElementOfSeq
  <2>5. image.digest # <<>> => Len(image.digest) = 1 /\ image.digest[1] \in Digests
    <3> SUFFICES ASSUME image.digest # <<>>
                 PROVE  Len(image.digest) = 1 /\ image.digest[1] \in Digests
      OBVIOUS
    <3>1. Len(image.digest) \in Nat /\ Len(image.digest) # 0
      BY <2>1, EmptySeq
    <3>2. \A n \in Nat : n # 0 /\ n <= 1 => n = 1
      OBVIOUS
    <3>3. Len(image.digest) = 1
      BY <2>3, <3>1, <3>2, Zenon
    <3> QED
      BY <2>1, <3>3, ElementOfSeq
  <2>6. image.tag \in Seq(Token) /\ \A i \in 1..Len(image.tag) : image.tag[i] \notin Separators
    BY <2>1, <2>2 DEF Token
  <2>7. image.digest \in Seq(Token) /\ \A i \in 1..Len(image.digest) : image.digest[i] \notin Separators
    BY <2>1, <2>2 DEF Token
  <2> QED
    BY <2>4, <2>5, <2>6, <2>7
<1>3. Name(image) = (b \o tag) \o digest
  BY DEF Name, Base
<1> HIDE DEF b
<1>4. CASE image.tag = <<>>
  <2>1. b \o tag = b
    BY <1>1, <1>4, ConcatEmptySeq
  <2>2. CASE image.digest = <<>>
    <3>1. Name(image) = b
      BY <1>1, <1>3, <2>1, <2>2, ConcatEmptySeq
    <3>2. SubSeq(b, 1, Len(b)) = b
      BY <1>1
    <3>3. Reference(Name(image)) = "latest"
      BY <1>1, <3>1 DEF Reference
    <3> QED
      BY <1>1, <3>1, <3>2, <3>3 DEF NamePart, b
  <2>3. CASE image.digest # <<>>
    <3>1. Name(image) = b \o (<<"@">> \o image.digest)
      BY <1>3, <2>1, <2>3
    <3>2. SubSeq(b \o (<<"@">> \o image.digest), 1, NameEnd(b \o (<<"@">> \o image.digest))) = b
      BY <1>1, <1>2, NameEndsBefore
    <3>3. Reference(b \o (<<"@">> \o image.digest)) \in Digests
      <4>1. image.digest[1] \notin Separators
        BY <1>2, <2>3
      <4> QED
        BY <1>1, <1>2, <2>3, <4>1, ReferenceIs
    <3> QED
      BY <1>1, <3>1, <3>2, <3>3 DEF NamePart, b
  <2> QED
    BY <2>2, <2>3
<1>5. CASE image.tag # <<>>
  <2> DEFINE tagged == b \o (<<":">> \o image.tag)
  <2>1. tagged \in Seq(Token) /\ NamePart(tagged) = b
    BY <1>1, <1>2, NameEndsBefore DEF NamePart
  <2>2. Name(image) = tagged \o digest
    BY <1>3, <1>5
  <2>3. CASE image.digest = <<>>
    <3>1. Name(image) = tagged
      BY <2>1, <2>2, <2>3, ConcatEmptySeq
    <3>2. Reference(tagged) \in Tags
      <4>1. image.tag[1] \notin Separators
        BY <1>2, <1>5
      <4> QED
        BY <1>1, <1>2, <1>5, <4>1, ReferenceIs
    <3> QED
      BY <1>1, <2>1, <3>1, <3>2 DEF b
  <2>4. CASE image.digest # <<>>
    <3>1. \A i \in 1..Len(tagged) : tagged[i] # "@"
      <4>1. ":" \in Token /\ <<":">> \in Seq(Token) /\ Len(<<":">>) = 1 /\ <<":">>[1] = ":"
        <5>1. ":" \in Token
          BY DEF Token, Separators
        <5> QED
          BY <5>1
      <4>2. /\ <<":">> \o image.tag \in Seq(Token)
            /\ \A i \in 1..Len(<<":">> \o image.tag) : (<<":">> \o image.tag)[i] # "@"
        <5>1. /\ <<":">> \o image.tag \in Seq(Token) /\ Len(<<":">> \o image.tag) = 1 + Len(image.tag)
              /\ (<<":">> \o image.tag)[1] = ":"
              /\ \A i \in 2..1 + Len(image.tag) : (<<":">> \o image.tag)[i] = image.tag[i - 1]
          BY <1>2, <4>1, ConcatProperties
        <5> QED
          BY <1>2, <5>1 DEF Separators
      <4> DEFINE rest == <<":">> \o image.tag
      <4> HIDE DEF rest
      <4>3. /\ Len(b \o rest) = Len(b) + Len(rest)
            /\ \A i \in 1..Len(b) + Len(rest) : (b \o rest)[i] = IF i <= Len(b) THEN b[i] ELSE rest[i - Len(b)]
        BY <1>1, <4>2, ConcatProperties DEF rest
      <4>4. \A i \in 1..Len(b \o rest) : (b \o rest)[i] # "@"
        <5> SUFFICES ASSUME NEW i \in 1..Len(b \o rest) PROVE (b \o rest)[i] # "@"
          OBVIOUS
        <5>1. Len(b) \in Nat /\ Len(rest) \in Nat
          BY <1>1, <4>2 DEF rest
        <5>2. CASE i <= Len(b)
          BY <1>1, <4>3, <5>1, <5>2
        <5>3. CASE ~(i <= Len(b))
          <6>1. i - Len(b) \in 1..Len(rest)
            BY <4>3, <5>1, <5>3
          <6> QED
            BY <4>2, <4>3, <5>1, <5>3, <6>1 DEF rest
        <5> QED
          BY <5>2, <5>3
      <4> QED
        BY <4>4 DEF rest
    <3> HIDE DEF tagged
    <3>2. Name(image) = tagged \o (<<"@">> \o image.digest)
      BY <2>2, <2>4
    <3>3. NamePart(tagged \o (<<"@">> \o image.digest)) = tagged
      BY <1>2, <2>1, <3>1, NameEndsBefore DEF NamePart
    <3>4. Reference(tagged \o (<<"@">> \o image.digest)) \in Digests
      <4>1. image.digest[1] \notin Separators
        BY <1>2, <2>4
      <4> QED
        BY <1>2, <2>1, <2>4, <3>1, <4>1, ReferenceIs
    <3> QED
      BY <1>5, <2>1, <2>4, <3>1, <3>2, <3>3, <3>4
  <2> QED
    BY <2>3, <2>4
<1> QED
  BY <1>4, <1>5

(* imageWithTag (registry.go 241-249) keeps the name of an image, and the  *)
(* tag it puts behind it is the one that is then asked for.                *)
LEMMA TaggedReference ==
    ASSUME NEW image, WellFormed(image), NEW t \in Tags
    PROVE  /\ Reference(imageWithTag(Name(image), t)) = t
           /\ NamePart(imageWithTag(Name(image), t)) = NamePart(Name(image))
<1> DEFINE name == NamePart(Name(image))
           s == name \o (<<":">> \o <<t>>)
<1>1. name \in Seq(Token) /\ \A i \in 1..Len(name) : name[i] # "@"
  BY NameParts
<1> HIDE DEF name
<1>2. imageWithTag(Name(image), t) = s
  <2>1. <<":">> \o <<t>> = <<":", t>>
    <3>1. ":" \in Token /\ t \in Token
      BY DEF Token, Separators
    <3>2. <<":">> \in Seq(Token) /\ <<t>> \in Seq(Token) /\ <<":", t>> \in Seq(Token)
      BY <3>1
    <3>3. /\ <<":">> \o <<t>> \in Seq(Token) /\ Len(<<":">> \o <<t>>) = 2
          /\ (<<":">> \o <<t>>)[1] = ":" /\ (<<":">> \o <<t>>)[2] = t
      BY <3>2, ConcatProperties
    <3>4. <<":", t>>[1] = ":" /\ <<":", t>>[2] = t /\ Len(<<":", t>>) = 2
      OBVIOUS
    <3> DEFINE c == <<":">> \o <<t>>
               p == <<":", t>>
    <3>5. c \in Seq(Token) /\ p \in Seq(Token) /\ Len(c) = 2 /\ Len(p) = 2
      BY <3>2, <3>3, <3>4
    <3>6. c[1] = p[1] /\ c[2] = p[2]
      BY <3>3, <3>4
    <3> HIDE DEF c, p
    <3>7. \A i \in 1..Len(c) : c[i] = p[i]
      <4>1. \A i \in 1..2 : i = 1 \/ i = 2
        OBVIOUS
      <4> QED
        BY <3>5, <3>6, <4>1
    <3>8. c = p
      BY <3>5, <3>7, SeqEqual
    <3> QED
      BY <3>8 DEF c, p
  <2> QED
    BY <2>1 DEF imageWithTag, name, NamePart
<1>3. <<t>> \in Seq(Token) /\ Len(<<t>>) = 1 /\ \A i \in 1..Len(<<t>>) : <<t>>[i] \notin Separators
  <2>1. t \in Token /\ t \notin Separators
    BY ImagesAssumption DEF Token
  <2> QED
    BY <2>1
<1>4. /\ Len(s) = Len(name) + 1 + Len(<<t>>) /\ NameEnd(s) = Len(name)
      /\ SubSeq(s, 1, NameEnd(s)) = name /\ Last(s) = t
  BY <1>1, <1>3, NameEndsBefore
<1> HIDE DEF s
<1>5. NameEnd(s) # Len(s)
  BY <1>1, <1>3, <1>4
<1> QED
  BY <1>2, <1>4, <1>5 DEF Reference, NamePart, name

(* A path with no "/" in it has one name; another begins with a name.      *)
LEMMA PathFacts ==
    ASSUME NEW image, WellFormed(image)
    PROVE  /\ image.path \in Seq(Token) /\ Len(image.path) \in Nat \ {0} /\ image.path[1] # "/"
           /\ LastIndex(image.path, "/") = 0 <=> Len(image.path) = 1
           /\ Len(image.path) # 1 => Len(image.path) > 2 /\ image.path[2] = "/"
<1> DEFINE path == image.path
<1>1. path \in Seq(Token) /\ Len(path) \in Nat \ {0}
  BY BaseFacts DEF WellFormed, Image, Token
<1>2. /\ Last(path) # "/"
      /\ \A i \in 1..Len(path) : path[i] = "/" <=> i > 1 /\ path[i - 1] # "/"
  BY DEF WellFormed
<1> HIDE DEF path
<1>3. path[1] # "/"
  BY <1>1, <1>2
<1> DEFINE n == Len(path)
<1>8. n \in Nat \ {0}
  BY <1>1
<1> HIDE DEF n
<1>4. n # 1 => n > 2 /\ path[2] = "/"
  <2> SUFFICES ASSUME n # 1 PROVE n > 2 /\ path[2] = "/"
    OBVIOUS
  <2>1. n \in Nat /\ n > 1
    BY <1>8
  <2>2. path[2] = "/"
    <3>1. 2 \in 1..n /\ 2 > 1 /\ 2 - 1 = 1
      BY <2>1
    <3>2. path[2] = "/" <=> 2 > 1 /\ path[2 - 1] # "/"
      BY <1>2, <3>1 DEF n
    <3> QED
      BY <1>3, <3>1, <3>2
  <2>3. n # 2
    BY <1>2, <2>2 DEF Last, n
  <2> QED
    BY <2>1, <2>2, <2>3
<1>5. LastIndex(path, "/") \in 0..Len(path)
      /\ (LastIndex(path, "/") > 0 => path[LastIndex(path, "/")] = "/")
      /\ \A i \in 1..Len(path) : i > LastIndex(path, "/") => path[i] # "/"
  BY <1>1, LastIndexFinds
<1> DEFINE slash == LastIndex(path, "/")
<1> HIDE DEF slash
<1>6. slash \in 0..Len(path) /\ (slash > 0 => path[slash] = "/")
      /\ \A i \in 1..Len(path) : i > slash => path[i] # "/"
  BY <1>5 DEF slash
<1>7. slash = 0 <=> Len(path) = 1
  <2>1. Len(path) = 1 => slash = 0
    BY <1>1, <1>3, <1>6
  <2>2. Len(path) # 1 => slash # 0
    <3>1. n # 1 => 2 \in 1..n /\ path[2] = "/"
      BY <1>1, <1>4 DEF n
    <3> QED
      BY <1>6, <3>1 DEF n
  <2> QED
    BY <2>1, <2>2
<1> QED
  BY <1>1, <1>3, <1>4, <1>7 DEF path, slash, n

(* parseImageReference (registry.go 251-273) finds the registry and the    *)
(* repository in which an image is, whatever follows the name.             *)
LEMMA ParseFinds ==
    ASSUME NEW image, WellFormed(image), NEW s, NamePart(s) = Base(image)
    PROVE  parseImageReference(s) = Own(image)
<1> DEFINE b == SubSeq(s, 1, NameEnd(s))
           h == PathFrom(image)
           slash == FirstIndex(b, "/")
           first == SubSeq(b, 1, slash - 1)
           named == slash > 0 /\ \/ ToSet(first) \intersect (Dotted \union {":"}) # {}
                                 \/ first = <<"localhost">>
           path  == SubSeq(b, IF named THEN slash + 1 ELSE 1, Len(b))
           registry == IF named /\ first \notin {<<"docker.io">>, <<"index.docker.io">>}
                       THEN first ELSE Hub
           onHub == image.host \in {<<>>, <<"docker.io">>, <<"index.docker.io">>}
           n == Len(image.path)
           found(r, short, p) == [registry |-> r,
                                  repository |-> IF short THEN <<"library", "/">> \o p ELSE p]
<1>1. parseImageReference(s) = found(registry, registry = Hub /\ LastIndex(path, "/") = 0, path)
  BY Zenon DEF parseImageReference
<1>2. Own(image) = found(IF onHub THEN Hub ELSE image.host, onHub /\ n = 1, image.path)
  BY Zenon DEF Own
<1>0. b = Base(image)
  BY DEF NamePart
<1>3. /\ b \in Seq(Token) /\ Len(b) = h + n /\ h \in {0, 2, 4} /\ n \in Nat \ {0}
      /\ \A i \in 1..h : b[i] = IF i = h THEN "/" ELSE image.host[i]
      /\ \A i \in 1..n : b[h + i] = image.path[i]
  <2>1. /\ Base(image) \in Seq(Token) /\ Len(Base(image)) = h + n /\ h \in {0, 2, 4} /\ n \in Nat \ {0}
        /\ \A i \in 1..h : Base(image)[i] = IF i = h THEN "/" ELSE image.host[i]
        /\ \A i \in 1..n : Base(image)[h + i] = image.path[i]
    BY BaseFacts, Zenon
  <2> HIDE DEF b, h, n
  <2> QED
    BY <1>0, <2>1
<1>4. /\ image.path \in Seq(Token) /\ image.path[1] # "/"
      /\ LastIndex(image.path, "/") = 0 <=> n = 1
      /\ n # 1 => n > 2 /\ image.path[2] = "/"
  BY PathFacts, Zenon
<1>5. /\ slash \in 0..Len(b) /\ (slash > 0 => b[slash] = "/")
      /\ (slash = 0 => \A i \in 1..Len(b) : b[i] # "/")
      /\ \A i \in 1..Len(b) : i < slash => b[i] # "/"
  <2>1. Len(b) \in Nat
    BY <1>3
  <2> QED
    BY <2>1, FirstIndexFinds
<1> HIDE DEF b, h, n, slash, first, path, found
<1>6. ASSUME NEW k \in Nat, k <= Len(b)
      PROVE  /\ SubSeq(b, 1, k) \in Seq(Token) /\ Len(SubSeq(b, 1, k)) = k
             /\ \A i \in 1..k : SubSeq(b, 1, k)[i] = b[i]
  <2>1. \A i \in 1..k : b[i] \in Token
    BY <1>3, <1>6
  <2> QED
    BY <1>3, <1>6, <2>1, SubSeqProperties
<1>7. SubSeq(b, h + 1, Len(b)) = image.path
  <2> DEFINE rest == SubSeq(b, h + 1, Len(b))
  <2>1. \A i \in h + 1..Len(b) : b[i] \in Token
    BY <1>3
  <2>2. /\ rest \in Seq(Token) /\ Len(rest) = n
        /\ \A i \in 1..n : rest[i] = b[h + i]
    <3>1. /\ rest \in Seq(Token)
          /\ Len(rest) = IF h + 1 <= Len(b) THEN Len(b) - (h + 1) + 1 ELSE 0
          /\ \A i \in 1..Len(b) - (h + 1) + 1 : rest[i] = b[h + 1 + i - 1]
      BY <1>3, <2>1, SubSeqProperties
    <3>2. h + 1 <= Len(b) /\ Len(b) - (h + 1) + 1 = n
      BY <1>3
    <3>3. \A i \in 1..n : h + 1 + i - 1 = h + i
      BY <1>3
    <3> QED
      BY <3>1, <3>2, <3>3
  <2> HIDE DEF rest
  <2>3. \A i \in 1..n : rest[i] = image.path[i]
    BY <1>3, <2>2
  <2>4. Len(rest) = Len(image.path) /\ \A i \in 1..Len(rest) : rest[i] = image.path[i]
    BY <2>2, <2>3 DEF n
  <2>5. rest = image.path
    BY <1>4, <2>2, <2>4, SeqEqual
  <2> QED
    BY <2>5 DEF rest
<1>8. CASE image.host = <<>>
  <2>1. h = 0 /\ b = image.path
    BY <1>4, <1>8, <1>0, ConcatEmptySeq DEF h, PathFrom, Base
  <2>2. CASE n = 1
    <3>1. slash = 0
      BY <1>3, <1>4, <1>5, <2>1, <2>2
    <3>2. ~named
      BY <3>1
    <3>3. registry = Hub /\ path = image.path
      BY <1>7, <2>1, <3>2 DEF path
    <3>4. (registry = Hub /\ LastIndex(path, "/") = 0) = (onHub /\ n = 1)
      BY <1>4, <1>8, <2>2, <3>3
    <3>5. registry = IF onHub THEN Hub ELSE image.host
      BY <1>8, <3>3
    <3> QED
      BY <1>1, <1>2, <3>3, <3>4, <3>5
  <2>3. CASE n # 1
    <3>1. slash = 2
      <4>1. 1 \in 1..Len(b) /\ 2 \in 1..Len(b) /\ b[1] # "/" /\ b[2] = "/"
        BY <1>3, <1>4, <2>1, <2>3
      <4> QED
        BY <1>5, <4>1
    <3>2. first = <<image.path[1]>>
      <4>1. /\ SubSeq(b, 1, 1) \in Seq(Token) /\ Len(SubSeq(b, 1, 1)) = 1
            /\ SubSeq(b, 1, 1)[1] = b[1]
        BY <1>3, <1>6, <2>1
      <4>2. SubSeq(b, 1, 1) = <<b[1]>>
        <5>1. b[1] \in Token
          BY <1>3, <2>1
        <5>2. <<b[1]>> \in Seq(Token) /\ Len(<<b[1]>>) = 1 /\ <<b[1]>>[1] = b[1]
          BY <5>1
        <5> DEFINE f == SubSeq(b, 1, 1)
                   g == <<b[1]>>
        <5> HIDE DEF f, g
        <5>3. /\ f \in Seq(Token) /\ g \in Seq(Token) /\ Len(f) = 1 /\ Len(g) = 1
              /\ \A i \in 1..1 : f[i] = g[i]
          BY <4>1, <5>2 DEF f, g
        <5>4. f = g
          BY <5>3, SeqEqual
        <5> QED
          BY <5>4 DEF f, g
      <4> QED
        BY <2>1, <3>1, <4>2 DEF first
    <3>3. ~IsRegistry(first)
      BY <1>8, <2>3, <3>2 DEF WellFormed, n
    <3>4. ~named
      BY <3>3 DEF IsRegistry
    <3>5. registry = Hub /\ path = image.path
      BY <1>7, <2>1, <3>4 DEF path
    <3>6. (registry = Hub /\ LastIndex(path, "/") = 0) = (onHub /\ n = 1)
      BY <1>4, <2>3, <3>5
    <3>7. registry = IF onHub THEN Hub ELSE image.host
      BY <1>8, <3>5
    <3> QED
      BY <1>1, <1>2, <3>5, <3>6, <3>7
  <2> QED
    BY <2>2, <2>3
<1>9. CASE image.host # <<>>
  <2>1. /\ image.host \in Seq(Token) /\ Len(image.host) \in {1, 3} /\ h = Len(image.host) + 1
        /\ \A i \in 1..Len(image.host) : image.host[i] # "/"
    <3>1. image.host \in Seq(Token)
      BY DEF WellFormed, Image, Token
    <3>2. Len(image.host) \in {0, 1, 3}
      BY DEF WellFormed
    <3>3. \A i \in 1..Len(image.host) : image.host[i] # "/"
      BY DEF WellFormed, Separators
    <3>4. Len(image.host) # 0
      BY <1>9, <3>1, EmptySeq
    <3>5. h = Len(image.host) + 1
      BY <1>9 DEF h, PathFrom
    <3>6. Len(image.host) \in {1, 3}
      BY <3>2, <3>4
    <3> QED
      BY <3>1, <3>3, <3>5, <3>6
  <2>2. slash = h
    <3>1. h \in 1..Len(b) /\ b[h] = "/"
      BY <1>3, <2>1
    <3>2. ASSUME NEW i \in 1..h - 1 PROVE b[i] # "/" /\ i \in 1..Len(b)
      <4>1. i \in 1..h /\ i # h /\ i \in 1..Len(image.host)
        BY <1>3, <2>1
      <4>2. b[i] = image.host[i]
        BY <1>3, <4>1
      <4> QED
        BY <1>3, <2>1, <4>1, <4>2
    <3>3. slash # 0 /\ ~(h < slash)
      BY <1>5, <3>1
    <3>4. ~(slash < h)
      BY <1>3, <1>5, <3>2, <3>3
    <3> QED
      BY <1>3, <1>5, <3>3, <3>4
  <2>3. first = image.host
    <3>1. h - 1 \in Nat /\ h - 1 <= Len(b) /\ h - 1 = Len(image.host)
      BY <1>3, <2>1
    <3>2. /\ SubSeq(b, 1, h - 1) \in Seq(Token) /\ Len(SubSeq(b, 1, h - 1)) = h - 1
          /\ \A i \in 1..h - 1 : SubSeq(b, 1, h - 1)[i] = b[i]
      BY <1>6, <3>1
    <3>3. \A i \in 1..h - 1 : b[i] = image.host[i]
      BY <1>3
    <3>4. SubSeq(b, 1, h - 1) = image.host
      <4> DEFINE f == SubSeq(b, 1, h - 1)
      <4>1. /\ f \in Seq(Token) /\ Len(f) = Len(image.host)
            /\ \A i \in 1..Len(f) : f[i] = image.host[i]
        BY <3>1, <3>2, <3>3
      <4> HIDE DEF f
      <4>2. f = image.host
        BY <2>1, <4>1, SeqEqual
      <4> QED
        BY <4>2 DEF f
    <3> QED
      BY <2>2, <3>4 DEF first
  <2>4. named
    <3>1. IsRegistry(image.host)
      BY <1>9 DEF WellFormed
    <3>2. slash > 0
      BY <2>1, <2>2
    <3> QED
      BY <2>3, <3>1, <3>2 DEF IsRegistry
  <2>5. path = image.path
    BY <1>7, <2>2, <2>4 DEF path
  <2>6. registry = IF onHub THEN Hub ELSE image.host
    BY <1>9, <2>3, <2>4
  <2>7. registry = Hub /\ n = 1 <=> onHub /\ n = 1
    <3>1. image.host = Hub => n > 1
      BY DEF WellFormed, n
    <3> QED
      BY <1>3, <2>6, <3>1
  <2>8. (registry = Hub /\ LastIndex(path, "/") = 0) = (onHub /\ n = 1)
    BY <1>4, <2>5, <2>7
  <2> QED
    BY <1>1, <1>2, <2>5, <2>6, <2>8
<1> QED
  BY <1>8, <1>9

-----------------------------------------------------------------------------
(* No check, at first.                                                     *)
LEMMA NoCheckInv ==
    ASSUME catalog \in [Tags -> Digests \union {Gone}], check = NoCheck
    PROVE  CheckInv
<1>1. CheckType
  BY DEF CheckType, NoCheck
<1>2. SearchInv /\ OfferIsNewest
  BY RegistryAssumption DEF NoCheck, SearchInv, OfferIsNewest
<1> QED
  BY <1>1, <1>2 DEF CheckInv

(* The image's own version, and the best so far, are versions.             *)
LEMMA CurrentIsVersion ==
    ASSUME CheckInv, check.checked
    PROVE  parseSemanticTag(Current) \in Version /\ BestVersion \in Version
<1>1. Current \in Tags /\ IsSemantic(Current)
  BY DEF CheckInv, SearchInv, Semantic, Current
<1>2. check.best = NoTag \/ (check.best \in Tags /\ IsSemantic(check.best))
  BY DEF CheckInv, CheckType, SearchInv
<1> QED
  BY <1>1, <1>2, ParsedIsVersion DEF BestVersion

(* Looking at one more tag keeps the best the newest of those looked at.   *)
LEMMA ExamineStep ==
    ASSUME CheckInv, NEW t \in Tags, Examine(t)
    PROVE  CheckInv'
<1> DEFINE isNewer == IsSemantic(t) /\ Newer(parseSemanticTag(t), BestVersion)
           best == IF isNewer THEN t ELSE check.best
<1>1. check' = [check EXCEPT !.left = check.left \ {t}, !.best = best]
  BY Zenon DEF Examine
<1>2. check.pc = "search" /\ t \in check.left /\ check.checked
  BY DEF Examine, CheckInv, SearchInv
<1>3. best \in Tags \union {NoTag} /\ (best # NoTag => IsSemantic(best))
  BY DEF CheckInv, CheckType, SearchInv
<1>4. parseSemanticTag(Current) \in Version /\ BestVersion \in Version
  BY <1>2, CurrentIsVersion
<1> HIDE DEF best
<1>5. CheckType'
  BY <1>1, <1>3 DEF CheckInv, CheckType
<1>6. /\ check'.best = best /\ check'.left = check.left \ {t} /\ check'.page = check.page
      /\ check'.image = check.image /\ check'.checked = check.checked /\ check'.pc = check.pc
      /\ check'.request = check.request
  BY <1>1 DEF CheckInv, CheckType
<1>7. SearchInv'
  BY <1>2, <1>3, <1>6 DEF CheckInv, SearchInv, Semantic
<1>8. ASSUME isNewer PROVE OfferIsNewest'
  <2>1. best = t /\ t # NoTag /\ t \in check.page /\ parseSemanticTag(t) \in Version
    BY <1>2, <1>8, ParsedIsVersion, RegistryAssumption DEF best, CheckInv, SearchInv
  <2>2. Newer(parseSemanticTag(t), parseSemanticTag(Current))
    <3>1. CASE check.best = NoTag
      BY <1>8, <3>1 DEF BestVersion
    <3>2. CASE check.best # NoTag
      <4>1. Newer(BestVersion, parseSemanticTag(Current))
        BY <1>2, <3>2 DEF BestVersion, CheckInv, OfferIsNewest
      <4> QED
        BY <1>4, <1>8, <2>1, <4>1, NewerIsStrictOrder
    <3> QED
      BY <3>1, <3>2
  <2>3. ASSUME NEW u \in check.page \ (check.left \ {t}), IsSemantic(u)
        PROVE  ~Newer(parseSemanticTag(u), parseSemanticTag(t))
    <3>1. u \in Tags /\ parseSemanticTag(u) \in Version
      BY <2>3, ParsedIsVersion DEF CheckInv, CheckType
    <3>2. CASE u = t
      BY <2>1, <3>2, NewerIsStrictOrder
    <3>3. CASE u # t
      <4>1. ~Newer(parseSemanticTag(u), BestVersion)
        BY <1>2, <2>3, <3>3 DEF CheckInv, OfferIsNewest
      <4> QED
        BY <1>4, <1>8, <2>1, <3>1, <4>1, NewerIsStrictOrder
    <3> QED
      BY <3>2, <3>3
  <2> QED
    BY <1>6, <2>1, <2>2, <2>3 DEF OfferIsNewest, BestVersion, Current
<1>9. ASSUME ~isNewer PROVE OfferIsNewest'
  <2>1. best = check.best
    BY <1>9 DEF best
  <2>2. ASSUME NEW u \in check.page \ (check.left \ {t}), IsSemantic(u)
        PROVE  ~Newer(parseSemanticTag(u), BestVersion)
    BY <1>2, <1>9, <2>2 DEF CheckInv, OfferIsNewest
  <2> QED
    BY <1>2, <1>6, <2>1, <2>2 DEF CheckInv, OfferIsNewest, BestVersion, Current
<1>0. catalog' = catalog
  BY DEF Examine, Keep
<1> QED
  BY <1>5, <1>7, <1>8, <1>9, <1>0 DEF CheckInv

(* The steps that leave the search alone.                                  *)
LEMMA OtherStep ==
    ASSUME CheckInv,
           \/ AskRegistry \/ SkipRegistry \/ Challenged \/ Granted \/ Unanswered \/ SearchEnds
           \/ \E d \in Digests : DigestFound(d)
    PROVE  CheckInv'
<1>1. /\ check'.checked = check.checked /\ check'.left = check.left
      /\ check'.best = check.best /\ check'.page = check.page /\ check'.image = check.image
  <2> USE DEF CheckInv, CheckType
  <2>1. CASE AskRegistry \/ SkipRegistry
    BY <2>1 DEF AskRegistry, SkipRegistry
  <2>2. CASE Challenged \/ Granted \/ Unanswered
    BY <2>2 DEF Challenged, Granted, Unanswered
  <2>3. CASE SearchEnds
    BY <2>3 DEF SearchEnds
  <2>4. CASE \E d \in Digests : DigestFound(d)
    BY <2>4 DEF DigestFound
  <2> QED
    BY <2>1, <2>2, <2>3, <2>4
<1>2. CheckType' /\ catalog' = catalog
  <2> USE DEF CheckInv, CheckType
  <2>1. CASE AskRegistry
    BY <2>1 DEF AskRegistry, Keep
  <2>2. CASE SkipRegistry \/ Challenged \/ Granted \/ Unanswered
    BY <2>2 DEF SkipRegistry, Challenged, Granted, Unanswered, Keep
  <2>3. CASE SearchEnds
    BY <2>3 DEF SearchEnds, Keep
  <2>4. ASSUME NEW d \in Digests, DigestFound(d) PROVE CheckType' /\ catalog' = catalog
    <3>1. check' = [check EXCEPT !.pc = "done", !.digest = d] /\ catalog' = catalog
      BY <2>4, Zenon DEF DigestFound, Keep
    <3> QED
      BY <3>1
  <2> QED
    BY <2>1, <2>2, <2>3, <2>4
<1>3. SearchInv'
  <2> USE DEF CheckInv, CheckType, SearchInv, Semantic
  <2>1. CASE AskRegistry \/ SkipRegistry
    BY <1>1, <2>1 DEF AskRegistry, SkipRegistry
  <2>2. CASE Challenged \/ Granted \/ Unanswered
    BY <1>1, <2>2 DEF Challenged, Granted, Unanswered
  <2>3. CASE SearchEnds
    BY <1>1, <2>3 DEF SearchEnds
  <2>4. CASE \E d \in Digests : DigestFound(d)
    <3>1. check'.pc = "done"
      BY <2>4 DEF DigestFound
    <3> QED
      BY <1>1, <3>1
  <2> QED
    BY <2>1, <2>2, <2>3, <2>4
<1>4. OfferIsNewest'
  BY <1>1 DEF CheckInv, OfferIsNewest, BestVersion, Current
<1> QED
  BY <1>2, <1>3, <1>4 DEF CheckInv

(* Every step of a check, and of the registry, keeps the invariant.        *)
LEMMA NextCheckInv ==
    ASSUME CheckInv, [CheckNext]_checkVars
    PROVE  CheckInv'
<1>1. ASSUME NEW t \in Tags, NEW d \in Digests \union {Gone}, Publish(t, d)
      PROVE  CheckInv'
  <2>1. check' = [check EXCEPT !.had[t] = check.had[t] \union ({d} \ {Gone})]
    BY <1>1, Zenon DEF Publish
  <2>2. catalog' \in [Tags -> Digests \union {Gone}]
    BY <1>1 DEF Publish, CheckInv
  <2>3. CheckType'
    BY <2>1 DEF CheckInv, CheckType
  <2>4. /\ check'.checked = check.checked /\ check'.left = check.left
        /\ check'.best = check.best /\ check'.page = check.page /\ check'.image = check.image
        /\ check'.pc = check.pc /\ check'.request = check.request
    BY <2>1 DEF CheckInv, CheckType
  <2> QED
    BY <2>2, <2>3, <2>4 DEF CheckInv, SearchInv, OfferIsNewest, BestVersion, Current, Semantic
<1>2. ASSUME NEW image \in Images, BeginCheck(image)
      PROVE  CheckInv'
  <2> DEFINE had == [t \in Tags |-> {catalog[t]} \ {Gone}]
  <2>1. check' = [NoCheck EXCEPT !.pc = "host", !.image = image, !.had = had] /\ catalog' = catalog
    BY <1>2, Zenon DEF BeginCheck, Keep
  <2>2. had \in [Tags -> SUBSET (Digests \union {Gone})]
    BY DEF CheckInv
  <2> HIDE DEF had
  <2>3. check' = [pc |-> "host", image |-> image, request |-> "tags", granted |-> FALSE,
                  checked |-> FALSE, left |-> {}, best |-> NoTag, digest |-> NoDigest,
                  page |-> {}, had |-> had]
    BY <2>1 DEF NoCheck
  <2>4. CheckType'
    BY <2>2, <2>3 DEF CheckType
  <2>5. /\ check'.pc = "host" /\ check'.checked = FALSE /\ check'.best = NoTag
        /\ check'.left = {} /\ check'.page = {}
    BY <2>3
  <2>6. SearchInv' /\ OfferIsNewest'
    BY <2>5 DEF SearchInv, OfferIsNewest
  <2> QED
    BY <2>1, <2>4, <2>6 DEF CheckInv
<1>3. CASE EndCheck \/ DropCheck
  <2>1. check' = NoCheck /\ catalog' = catalog
    BY <1>3 DEF EndCheck, DropCheck, Keep
  <2>2. CheckType' /\ SearchInv' /\ OfferIsNewest'
    BY <2>1, RegistryAssumption DEF NoCheck, CheckType, SearchInv, OfferIsNewest
  <2> QED
    BY <2>1, <2>2 DEF CheckInv
<1>4. ASSUME NEW page \in SUBSET Published, Listed(page)
      PROVE  CheckInv'
  <2>1. check' = [check EXCEPT !.pc = "search", !.checked = TRUE, !.left = page, !.page = page]
        /\ catalog' = catalog
    BY <1>4, Zenon DEF Listed, Keep
  <2>2. page \subseteq Tags /\ Semantic(check.image) /\ check.best = NoTag
    BY <1>4 DEF Listed, Published, CheckInv, SearchInv
  <2>3. CheckType'
    BY <2>1, <2>2 DEF CheckInv, CheckType
  <2>4. /\ check'.pc = "search" /\ check'.checked /\ check'.left = page /\ check'.page = page
        /\ check'.best = NoTag /\ check'.image = check.image
    BY <2>1, <2>2 DEF CheckInv, CheckType
  <2>5. Semantic(check'.image)
    BY <2>2, <2>4
  <2> QED
    BY <2>1, <2>3, <2>4, <2>5 DEF CheckInv, SearchInv, OfferIsNewest
<1>5. CASE UNCHANGED checkVars
  BY <1>5 DEF checkVars, CheckInv, CheckType, SearchInv, OfferIsNewest, BestVersion, Current,
     Semantic
<1> QED
  BY <1>1, <1>2, <1>3, <1>4, <1>5, ExamineStep, OtherStep DEF CheckNext

(* The tag that is offered is newer than the image's own, and no listed    *)
(* tag is newer: whatever tags there are, in whatever order and spelling.  *)
THEOREM NewestIsOffered == CheckSpec => []OfferIsNewest
<1>1. CheckInit([Tags -> Digests \union {Gone}]) => CheckInv
  BY NoCheckInv DEF CheckInit
<1>2. CheckInv /\ [CheckNext]_checkVars => CheckInv'
  BY NextCheckInv
<1>3. CheckInv => OfferIsNewest
  BY DEF CheckInv
<1> QED
  BY <1>1, <1>2, <1>3, PTL DEF CheckSpec

-----------------------------------------------------------------------------
(* The history of a check has what its tags point to; a digest is there    *)
(* only at its end.                                                        *)
HistoryInv ==
    /\ check.pc # "idle" => check.image \in Images
    /\ check.pc # "idle" => \A t \in Tags : catalog[t] # Gone => catalog[t] \in check.had[t]
    /\ check.digest # NoDigest => check.pc = "done"
    /\ DigestIsOfOffer
    /\ changes \in 0..MaxChanges

(* The reference under which a digest is asked for is the offered tag or,  *)
(* without an offer, the image's own.                                      *)
LEMMA AskedReference ==
    ASSUME CheckInv, check.image \in Images
    PROVE  Reference(Asked) = IF check.best = NoTag THEN Current ELSE check.best
<1>1. WellFormed(check.image)
  BY ImagesAssumption
<1>2. CASE check.best = NoTag
  BY <1>2 DEF Asked, Current
<1>3. CASE check.best # NoTag
  <2>1. check.best \in Tags
    BY <1>3 DEF CheckInv, CheckType
  <2> QED
    BY <1>1, <1>3, <2>1, TaggedReference DEF Asked
<1> QED
  BY <1>2, <1>3

(* A digest that the registry answers with is one that its tag has now.    *)
LEMMA FoundStep ==
    ASSUME CheckInv, HistoryInv, NEW d \in Digests, DigestFound(d)
    PROVE  HistoryInv'
<1> DEFINE r == IF check.best = NoTag THEN Current ELSE check.best
<1>1. check' = [check EXCEPT !.pc = "done", !.digest = d] /\ catalog' = catalog /\ changes' = changes
  BY Zenon DEF DigestFound, Keep
<1>2. check.pc = "ask" /\ check.image \in Images
  BY DEF DigestFound, HistoryInv
<1>3. d = (IF r \in Tags THEN catalog[r] ELSE r) /\ d # Gone
  <2>1. d = (IF Reference(Asked) \in Tags THEN catalog[Reference(Asked)] ELSE Reference(Asked))
        /\ d # Gone
    BY Zenon DEF DigestFound
  <2>2. Reference(Asked) = r
    BY <1>2, AskedReference
  <2> HIDE DEF r
  <2> QED
    BY <2>1, <2>2
<1> HIDE DEF r
<1>4. d \in IF r \in Tags THEN check.had[r] ELSE {r}
  BY <1>2, <1>3 DEF HistoryInv
<1>5. /\ check'.pc = "done" /\ check'.digest = d /\ check'.image = check.image
      /\ check'.best = check.best /\ check'.had = check.had
  BY <1>1 DEF CheckInv, CheckType
<1>6. DigestIsOfOffer'
  BY <1>4, <1>5 DEF DigestIsOfOffer, Current, r
<1> QED
  BY <1>1, <1>2, <1>5, <1>6 DEF HistoryInv

(* What else a check does has no digest yet, and forgets nothing.          *)
LEMMA NextHistoryInv ==
    ASSUME CheckInv, HistoryInv, [CheckNext]_checkVars
    PROVE  HistoryInv'
<1>1. ASSUME NEW t \in Tags, NEW d \in Digests \union {Gone}, Publish(t, d)
      PROVE  HistoryInv'
  <2>1. check' = [check EXCEPT !.had[t] = check.had[t] \union ({d} \ {Gone})]
    BY <1>1, Zenon DEF Publish
  <2>2. catalog' = [catalog EXCEPT ![t] = d] /\ changes < MaxChanges /\ changes' = changes + 1
    BY <1>1 DEF Publish
  <2>3. /\ check'.best = check.best /\ check'.image = check.image /\ check'.pc = check.pc
        /\ check'.digest = check.digest
        /\ check'.had = [check.had EXCEPT ![t] = check.had[t] \union ({d} \ {Gone})]
    BY <2>1 DEF CheckInv, CheckType
  <2>4. \A u \in Tags : check.had[u] \subseteq check'.had[u] /\ (d # Gone => d \in check'.had[t])
    <3>1. check.had \in [Tags -> SUBSET (Digests \union {Gone})]
      BY DEF CheckInv, CheckType
    <3> QED
      BY <2>3, <3>1
  <2>5. \A u \in Tags : catalog'[u] = IF u = t THEN d ELSE catalog[u]
    BY <2>2 DEF CheckInv
  <2>6. check.pc # "idle" => \A u \in Tags : catalog'[u] # Gone => catalog'[u] \in check'.had[u]
    BY <2>4, <2>5 DEF HistoryInv
  <2>7. DigestIsOfOffer'
    BY <2>3, <2>4 DEF HistoryInv, DigestIsOfOffer, Current
  <2>8. changes' \in 0..MaxChanges
    BY <2>2, RegistryAssumption DEF HistoryInv
  <2> QED
    BY <2>3, <2>6, <2>7, <2>8 DEF HistoryInv
<1>2. ASSUME NEW image \in Images, BeginCheck(image)
      PROVE  HistoryInv'
  <2> DEFINE had == [t \in Tags |-> {catalog[t]} \ {Gone}]
  <2>1. check' = [NoCheck EXCEPT !.pc = "host", !.image = image, !.had = had]
        /\ catalog' = catalog /\ changes' = changes
    BY <1>2, Zenon DEF BeginCheck, Keep
  <2>2. \A t \in Tags : catalog[t] # Gone => catalog[t] \in had[t]
    OBVIOUS
  <2> HIDE DEF had
  <2>3. check'.image = image /\ check'.had = had /\ check'.digest = NoDigest
    BY <2>1 DEF NoCheck
  <2> QED
    BY <2>1, <2>2, <2>3 DEF HistoryInv, DigestIsOfOffer
<1>3. CASE EndCheck \/ DropCheck
  BY <1>3 DEF EndCheck, DropCheck, Keep, NoCheck, HistoryInv, DigestIsOfOffer
<1>4. CASE \/ AskRegistry \/ SkipRegistry \/ Challenged \/ Granted \/ Unanswered \/ SearchEnds
           \/ \E page \in SUBSET Published : Listed(page)
           \/ \E t \in Tags : Examine(t)
  <2>1. check.pc \notin {"idle", "done"} /\ catalog' = catalog /\ changes' = changes
    BY <1>4 DEF AskRegistry, SkipRegistry, Challenged, Granted, Unanswered, SearchEnds, Listed,
       Examine, Keep
  <2>2. check'.image = check.image /\ check'.had = check.had /\ check'.digest = check.digest
    <3> USE DEF CheckInv, CheckType
    <3>1. CASE AskRegistry \/ SkipRegistry \/ Challenged \/ Granted \/ Unanswered
      BY <3>1 DEF AskRegistry, SkipRegistry, Challenged, Granted, Unanswered
    <3>2. CASE SearchEnds
      BY <3>2 DEF SearchEnds
    <3>3. CASE \E page \in SUBSET Published : Listed(page)
      BY <3>3 DEF Listed
    <3>4. ASSUME NEW t \in Tags, Examine(t)
          PROVE  check'.image = check.image /\ check'.had = check.had /\ check'.digest = check.digest
      BY <3>4 DEF Examine
    <3> QED
      BY <1>4, <3>1, <3>2, <3>3, <3>4
  <2>3. check.digest = NoDigest
    BY <2>1 DEF HistoryInv
  <2> QED
    BY <2>1, <2>2, <2>3 DEF HistoryInv, DigestIsOfOffer
<1>5. CASE UNCHANGED checkVars
  BY <1>5 DEF checkVars, HistoryInv, DigestIsOfOffer, Current
<1> QED
  BY <1>1, <1>2, <1>3, <1>4, <1>5, FoundStep DEF CheckNext

(* There is no history, at first.                                          *)
LEMMA NoHistoryInv ==
    ASSUME check = NoCheck, changes = 0
    PROVE  HistoryInv
BY RegistryAssumption DEF NoCheck, HistoryInv, DigestIsOfOffer

(* A digest that is reported is one the offered tag, or the image's own    *)
(* reference, has had since the check began: whatever is published, moved  *)
(* or deleted meanwhile.                                                   *)
THEOREM DigestsAreOfOffer == CheckSpec => []DigestIsOfOffer
<1>1. CheckInit([Tags -> Digests \union {Gone}]) => CheckInv /\ HistoryInv
  BY NoCheckInv, NoHistoryInv DEF CheckInit
<1>2. CheckInv /\ HistoryInv /\ [CheckNext]_checkVars => CheckInv' /\ HistoryInv'
  BY NextCheckInv, NextHistoryInv
<1>3. HistoryInv => DigestIsOfOffer
  BY DEF HistoryInv
<1> QED
  BY <1>1, <1>2, <1>3, PTL DEF CheckSpec

(* Every request goes to the registry and the repository of the image,     *)
(* whatever its host, port, path, tag and digest are; but for an image     *)
(* with both a tag and a digest.                                           *)
THEOREM OwnRepositoryIsAsked == CheckSpec => []AsksOwnRepository
<1>1. CheckInit([Tags -> Digests \union {Gone}]) => CheckInv /\ HistoryInv
  BY NoCheckInv, NoHistoryInv DEF CheckInit
<1>2. CheckInv /\ HistoryInv /\ [CheckNext]_checkVars => CheckInv' /\ HistoryInv'
  BY NextCheckInv, NextHistoryInv
<1>3. CheckInv /\ HistoryInv => AsksOwnRepository
  <2> SUFFICES ASSUME CheckInv, HistoryInv, check.pc = "ask",
                      check.image.tag = <<>> \/ check.image.digest = <<>>
               PROVE  parseImageReference(Asked) = Own(check.image)
    BY DEF AsksOwnRepository
  <2>1. WellFormed(check.image)
    BY ImagesAssumption DEF HistoryInv
  <2>2. NamePart(Name(check.image)) = Base(check.image)
    BY <2>1, NameParts
  <2>3. CASE check.best = NoTag
    BY <2>1, <2>2, <2>3, ParseFinds DEF Asked
  <2>4. CASE check.best # NoTag
    <3>1. check.best \in Tags
      BY <2>4 DEF CheckInv, CheckType
    <3>2. NamePart(imageWithTag(Name(check.image), check.best)) = Base(check.image)
      BY <2>1, <2>2, <3>1, TaggedReference
    <3> QED
      BY <2>1, <2>4, <3>2, ParseFinds DEF Asked
  <2> QED
    BY <2>3, <2>4
<1> QED
  BY <1>1, <1>2, <1>3, PTL DEF CheckSpec

=============================================================================
