----------------------------- MODULE References -----------------------------
(***************************************************************************)
(* Image references, [host/]path[:tag][@digest], as the sequences of their *)
(* names and separators, and the three functions that take them apart:     *)
(* parseImageReference and imageWithTag (internal/app/registry.go) and     *)
(* containerVersion (app.go). All three look for the last "@" or, only     *)
(* without one, for a ":" after the last "/".                              *)
(***************************************************************************)
EXTENDS SequencesExt

CONSTANTS
    Dotted     \* the names with a dot in them

Hub == <<"registry-1.docker.io">>

FirstIndex(image, token) == SelectInSeq(image, LAMBDA t : t = token)

LastIndex(image, token) == SelectLastInSeq(image, LAMBDA t : t = token)

(* Mutant: any ":" begins a tag, the port of a registry too.               *)
AnyColonEnd(image) ==
    LET at == LastIndex(image, "@")  colon == LastIndex(image, ":")
    IN  IF at > 0 THEN at - 1
        ELSE IF colon > 0 THEN colon - 1
        ELSE Len(image)

(* Where the name of the image ends: before its digest, else its tag.      *)
NameEnd(image) ==
    LET at == LastIndex(image, "@")  colon == LastIndex(image, ":")
    IN  IF at > 0 THEN at - 1
        ELSE IF colon > LastIndex(image, "/") THEN colon - 1
        ELSE Len(image)

(* containerVersion, and the reference that a registry is asked for.       *)
Reference(image) ==
    IF NameEnd(image) = Len(image) THEN "latest" ELSE Last(image)

imageWithTag(image, tag) == SubSeq(image, 1, NameEnd(image)) \o <<":", tag>>

(* The registry and the repository of an image: the first part names a     *)
(* registry if it has a dot or a port; Docker Hub's own images are in      *)
(* library/.                                                               *)
parseImageReference(image) ==
    LET name  == SubSeq(image, 1, NameEnd(image))
        slash == FirstIndex(name, "/")
        first == SubSeq(name, 1, slash - 1)
        named == slash > 0 /\ \/ ToSet(first) \intersect (Dotted \union {":"}) # {}
                              \/ first = <<"localhost">>
        path  == SubSeq(name, IF named THEN slash + 1 ELSE 1, Len(name))
        registry == IF named /\ first \notin {<<"docker.io">>, <<"index.docker.io">>}
                    THEN first ELSE Hub
    IN  [registry   |-> registry,
         repository |-> IF registry = Hub /\ LastIndex(path, "/") = 0
                        THEN <<"library", "/">> \o path ELSE path]

=============================================================================
