------------------------------ MODULE Registry ------------------------------
(***************************************************************************)
(* A check against a public registry (internal/app/registry.go): the       *)
(* search for a newer tag and the digest of an image, each a request that  *)
(* is sent again with a token when the registry asks for one. The registry *)
(* goes on publishing meanwhile: the list of tags, the search and the      *)
(* digest are of different moments.                                        *)
(***************************************************************************)
EXTENDS Versions, References

CONSTANTS
    Images,      \* references, as their parts: see Image
    Digests,
    PageSize,    \* tags in the one page that is read: ?n=1000
    MaxChanges,  \* bound: changes of the registry
    Gone, NoTag, NoDigest, NoImage

(* [host/]path[:tag][@digest]; what is missing is empty.                   *)
Image == [host : Seq(STRING), path : Seq(STRING), tag : Seq(Tags), digest : Seq(Digests)]

ASSUME RegistryAssumption ==
    /\ PageSize \in Nat /\ MaxChanges \in Nat
    /\ NoTag \notin Tags /\ Gone \notin Digests /\ NoDigest \notin Digests

Separators == {"/", ":", "@"}

(* Docker takes a first part for a registry if it has a dot or a port, or  *)
(* is localhost.                                                           *)
IsRegistry(first) == first = <<"localhost">> \/ ToSet(first) \intersect (Dotted \union {":"}) # {}

(* The grammar of references: a registry, which is a name and perhaps a    *)
(* port; names with "/" between them, of which the first could be taken    *)
(* for a registry only if it is the last. Docker Hub has no image without  *)
(* an owner under the address of its registry.                             *)
WellFormed(image) ==
    /\ image \in Image
    /\ image.host # <<>> => IsRegistry(image.host)
    /\ Len(image.host) \in {0, 1, 3}
    /\ \A i \in 1..Len(image.host) : IF i = 2 THEN image.host[i] = ":"
                                   ELSE image.host[i] \notin Separators
    /\ Len(image.path) > 0 /\ Last(image.path) # "/"
    /\ \A i \in 1..Len(image.path) :
          /\ image.path[i] \notin {":", "@"}
          /\ image.path[i] = "/" <=> i > 1 /\ image.path[i - 1] # "/"
    /\ image.host = <<>> /\ IsRegistry(<<image.path[1]>>) => Len(image.path) = 1
    /\ image.host = Hub => Len(image.path) > 1
    /\ Len(image.tag) <= 1 /\ Len(image.digest) <= 1

ASSUME ImagesAssumption ==
    /\ \A image \in Images : WellFormed(image)
    /\ Separators \intersect (Tags \union Digests) = {}

VARIABLES
    catalog,  \* what the tags of the image's repository point to
    changes,  \* the number of changes so far
    check     \* the check under way, or its result

checkVars == <<catalog, changes, check>>

(* pc: how far the check is; request: what it asks; granted: a token was    *)
(* asked for; checked: the tags could be listed; left: the tags still to   *)
(* be looked at; best: the newest so far. History: page, the tags that     *)
(* were listed; had, what each tag has pointed to since the check began.   *)
NoCheck == [pc |-> "idle", image |-> NoImage, request |-> "tags", granted |-> FALSE,
            checked |-> FALSE, left |-> {}, best |-> NoTag, digest |-> NoDigest,
            page |-> {}, had |-> [t \in Tags |-> {}]]

Published == {t \in Tags : catalog[t] # Gone}

(* The image as docker ps prints it.                                       *)
Name(image) ==
    (IF image.host = <<>> THEN <<>> ELSE image.host \o <<"/">>)
      \o image.path
      \o (IF image.tag = <<>> THEN <<>> ELSE <<":">> \o image.tag)
      \o (IF image.digest = <<>> THEN <<>> ELSE <<"@">> \o image.digest)

(* Where it really is.                                                     *)
Own(image) ==
    LET onHub == image.host \in {<<>>, <<"docker.io">>, <<"index.docker.io">>}
    IN  [registry   |-> IF onHub THEN Hub ELSE image.host,
         repository |-> IF onHub /\ Len(image.path) = 1
                        THEN <<"library", "/">> \o image.path ELSE image.path]

Current == Reference(Name(check.image))

Semantic(image) == LET tag == Reference(Name(image)) IN tag \in Tags /\ IsSemantic(tag)

BestVersion == parseSemanticTag(IF check.best = NoTag THEN Current ELSE check.best)

(* Mutant: the digest is asked for the image as it is.                     *)
AskedUntagged == Name(check.image)

(* The image that the present request is about.                            *)
Asked ==
    IF check.best = NoTag THEN Name(check.image)
    ELSE imageWithTag(Name(check.image), check.best)

CheckInit(catalogs) ==
    /\ catalog \in catalogs
    /\ changes = 0
    /\ check = NoCheck

-----------------------------------------------------------------------------
(* A push, a moved tag or a deleted one, while a check is under way.       *)
Publish(t, d) ==
    /\ check.pc # "idle"
    /\ changes < MaxChanges
    /\ catalog[t] # d
    /\ catalog' = [catalog EXCEPT ![t] = d]
    /\ changes' = changes + 1
    /\ check' = [check EXCEPT !.had[t] = @ \union ({d} \ {Gone})]

Keep == UNCHANGED <<catalog, changes>>

(* The machine is asked first.                                             *)
BeginCheck(image) ==
    /\ check.pc = "idle"
    /\ check' = [NoCheck EXCEPT !.pc = "host", !.image = image,
                               !.had = [t \in Tags |-> {catalog[t]} \ {Gone}]]
    /\ Keep

(* publicRegistryNewerVersion for an image with a semantic tag, and        *)
(* publicRegistryDigest for the others.                                    *)
AskRegistry ==
    /\ check.pc = "host"
    /\ check' = [check EXCEPT !.pc = "ask",
                             !.request = IF Semantic(check.image) THEN "tags" ELSE "manifest"]
    /\ Keep

(* No registry is asked when the machine knew the digest, or did not answer. *)
SkipRegistry ==
    /\ check.pc = "host"
    /\ check' = [check EXCEPT !.pc = "done"]
    /\ Keep

EndCheck ==
    /\ check.pc = "done"
    /\ check' = NoCheck
    /\ Keep

(* The handler fails, or its process.                                      *)
DropCheck ==
    /\ check' = NoCheck
    /\ Keep

(* 401 with a challenge, to a request without a token.                     *)
Challenged ==
    /\ check.pc = "ask" /\ ~check.granted
    /\ check' = [check EXCEPT !.pc = "token"]
    /\ Keep

(* Without a token the tags are not asked for again; the manifest is.      *)
Granted ==
    /\ check.pc = "token"
    /\ check' = [check EXCEPT !.pc = "ask", !.granted = TRUE]
    /\ Keep

(* Any other answer, or none, or no token: no tags, or no digest.          *)
Unanswered ==
    /\ check.pc \in {"ask", "token"}
    /\ check' = [check EXCEPT !.pc = "done"]
    /\ Keep

(* 200 with the first page of the tags.                                    *)
Listed(page) ==
    /\ check.pc = "ask" /\ check.request = "tags"
    /\ parseImageReference(Asked) = Own(check.image)
    /\ page \subseteq Published
    /\ page = Published \/ Cardinality(page) = PageSize
    /\ Cardinality(page) <= PageSize
    /\ check' = [check EXCEPT !.pc = "search", !.checked = TRUE,
                              !.left = page, !.page = page]
    /\ Keep

(* Mutant: the last of the newer tags, not the newest.                     *)
ExamineAny(t) ==
    /\ check.pc = "search" /\ t \in check.left
    /\ check' = [check EXCEPT
                   !.left = @ \ {t},
                   !.best = IF IsSemantic(t)
                               /\ Newer(parseSemanticTag(t), parseSemanticTag(Current))
                            THEN t ELSE @]
    /\ Keep

(* The body of the loop over the tags.                                     *)
Examine(t) ==
    /\ check.pc = "search" /\ t \in check.left
    /\ check' = [check EXCEPT
                   !.left = @ \ {t},
                   !.best = IF IsSemantic(t) /\ Newer(parseSemanticTag(t), BestVersion)
                            THEN t ELSE @]
    /\ Keep

(* Nothing newer ends the check; else the digest of the best is asked for. *)
SearchEnds ==
    /\ check.pc = "search" /\ check.left = {}
    /\ check' = IF check.best = NoTag THEN [check EXCEPT !.pc = "done"]
                ELSE [check EXCEPT !.pc = "ask", !.request = "manifest", !.granted = FALSE]
    /\ Keep

(* 200 with Docker-Content-Digest: of a tag, or of the digest itself.      *)
DigestFound(d) ==
    /\ check.pc = "ask" /\ check.request = "manifest"
    /\ parseImageReference(Asked) = Own(check.image)
    /\ d = LET r == Reference(Asked) IN IF r \in Tags THEN catalog[r] ELSE r
    /\ d # Gone
    /\ check' = [check EXCEPT !.pc = "done", !.digest = d]
    /\ Keep

CheckNext ==
    \/ \E t \in Tags, d \in Digests \union {Gone} : Publish(t, d)
    \/ \E image \in Images : BeginCheck(image)
    \/ AskRegistry
    \/ SkipRegistry
    \/ EndCheck
    \/ DropCheck
    \/ Challenged
    \/ Granted
    \/ Unanswered
    \/ \E page \in SUBSET Published : Listed(page)
    \/ \E t \in Tags : Examine(t)
    \/ SearchEnds
    \/ \E d \in Digests : DigestFound(d)

CheckSpec == CheckInit([Tags -> Digests \union {Gone}]) /\ [][CheckNext]_checkVars

-----------------------------------------------------------------------------
(* The search (registry.go 29-38) offers a listed tag that is newer than   *)
(* the image's own and that no other listed tag is newer than; and none    *)
(* only if no listed tag is newer. While it runs, this holds of the tags   *)
(* looked at. (Of several spellings of one version, any is offered.)       *)
OfferIsNewest ==
    check.checked =>
      /\ \A t \in check.page \ check.left :
            IsSemantic(t) => ~Newer(parseSemanticTag(t), BestVersion)
      /\ check.best # NoTag =>
            /\ check.best \in check.page
            /\ Newer(parseSemanticTag(check.best), parseSemanticTag(Current))

(* A request is sent to the registry and repository of the image and to no *)
(* other, the one for the digest of the offered tag too; except for images *)
(* with both a tag and a digest, whose tag the code takes for a part of    *)
(* the name (registry.go 243).                                             *)
AsksOwnRepository ==
    check.pc = "ask" /\ (check.image.tag = <<>> \/ check.image.digest = <<>>)
      => parseImageReference(Asked) = Own(check.image)

(* A digest that a check reports is one that the offered tag, or without   *)
(* an offer the image's reference, has had since the check began.          *)
DigestIsOfOffer ==
    check.digest # NoDigest =>
      LET r == IF check.best = NoTag THEN Current ELSE check.best
      IN  check.digest \in IF r \in Tags THEN check.had[r] ELSE {r}

=============================================================================
