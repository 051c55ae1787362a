----------------------------- MODULE TagLookup -----------------------------
(***************************************************************************)
(* How the name of a repository travels: what the dashboard makes of what  *)
(* was typed, what the validators accept, and what the two transports of   *)
(* the repo-manager's lookups (gRPC and REST) answer about a list of       *)
(* names.  Nothing here keeps state.                                       *)
(***************************************************************************)
EXTENDS Naturals, Sequences

CONSTANTS
    Name,    \* names of repositories, as the sequence of their parts between slashes
    Pieces,  \* what each name falls into at its commas, without surrounding blanks
    Unset    \* no tag: null, undefined or the empty string

ASSUME PiecesAssumption == Pieces \in [Name -> SUBSET Name]

-----------------------------------------------------------------------------
(* Names *)

\* validateRepo, the same in both services.
Valid(name) == Len(name) = 2 /\ name[1] # "" /\ name[2] # ""

Filled(parts) == SelectSeq(parts, LAMBDA part : part # "")

\* The string without its trailing slashes.
Trimmed(parts) ==
    LET Ends == {0} \cup {i \in DOMAIN parts : parts[i] # ""}
        last == CHOOSE i \in Ends : \A j \in Ends : j <= i
    IN  IF last = 0 THEN <<"">> ELSE SubSeq(parts, 1, last)

IsUrl(parts) == Len(parts) > 2 /\ parts[1] \in {"http:", "https:"} /\ parts[2] = ""

\* Slip: the last two parts of the path are taken.
CleanLastTwo(typed) ==
    LET input == Trimmed(typed)
        url   == Filled(Tail(input))
    IN  IF IsUrl(input) /\ url[1] \in {"github.com", "gist.github.com"} /\ Len(url) > 2
        THEN <<url[Len(url) - 1], url[Len(url)]>>
        ELSE input

\* The name in the URL of a page of a repository; anything else as it is. Narrower
\* than new URL(): two hosts stand for github.com and *.github.com, none is written
\* in capitals, there is neither query nor hash, and every URL can be parsed.
CleanRepoInput(typed) ==
    LET input == Trimmed(typed)
        url   == Filled(Tail(input))
    IN  IF IsUrl(input) /\ url[1] \in {"github.com", "gist.github.com"} /\ Len(url) > 2
        THEN <<url[2], url[3]>>
        ELSE input

-----------------------------------------------------------------------------
(* The repo-manager: its table maps the tracked names to their latest tags *)

Reply(status, tags) == [status |-> status, tags |-> tags]
NoTags == [name \in {} |-> Unset]

\* Slip: the names are reset after the rows were read into the answer.
TagErased(repos, name) == Unset

TagIn(repos, name) == IF name \in DOMAIN repos THEN repos[name] ELSE Unset

TagsIn(repos, names) == [name \in names |-> TagIn(repos, name)]

GrpcFetchLatestTags(repos, names) ==
    IF \A name \in names : Valid(name)
    THEN Reply("OK", TagsIn(repos, names))
    ELSE Reply("INVALID_ARGUMENT", NoTags)

\* GET /internal/repositories?repos=...: the list is one string with commas.
RestGetRepositories(repos, names) ==
    LET asked == UNION {Pieces[name] : name \in names}
    IN  IF \A name \in asked : Valid(name)
        THEN Reply("OK", TagsIn(repos, asked))
        ELSE Reply("BAD_REQUEST", NoTags)

GrpcFetchLatestTag(repos, name) ==
    CASE ~Valid(name)          -> Reply("INVALID_ARGUMENT", NoTags)
      [] name \in DOMAIN repos -> Reply("OK", TagsIn(repos, {name}))
      [] OTHER                 -> Reply("NOT_FOUND", NoTags)

\* GET /internal/repositories?repo=...
RestGetRepository(repos, name) ==
    CASE ~Valid(name)          -> Reply("BAD_REQUEST", NoTags)
      [] name \in DOMAIN repos -> Reply("OK", TagsIn(repos, {name}))
      [] OTHER                 -> Reply("NOT_FOUND", NoTags)

-----------------------------------------------------------------------------
(* The subscription service's side of both transports *)

\* fetchLatestTag, fetchLatestTags: what is missing, or an error, is no tag.
OrUnset(reply, names) ==
    [name \in names |-> IF reply.status = "OK" /\ name \in DOMAIN reply.tags
                        THEN reply.tags[name] ELSE Unset]

GrpcTag(repos, name) == OrUnset(GrpcFetchLatestTag(repos, name), {name})[name]
RestTag(repos, name) == OrUnset(RestGetRepository(repos, name), {name})[name]

GrpcTags(repos, names) == OrUnset(GrpcFetchLatestTags(repos, names), names)
RestTags(repos, names) == OrUnset(RestGetRepositories(repos, names), names)

\* A name that is still itself behind a query string.
Plain(name) == Pieces[name] = {name}

-----------------------------------------------------------------------------
(* The answers of POST /subscribe *)

StatusCode(error) ==
    CASE error = "BadRequestError" -> 400
      [] error = "NotFoundError"   -> 404
      [] error = "ConflictError"   -> 409
      [] error = "RateLimitError"  -> 429
      [] error \in {"AppError", "ServiceError", "DatabaseError", "AmqpError"} -> 500

\* What an outcome of a request was thrown as, "Error" for no AppError.
Thrown(outcome) ==
    CASE outcome = "INVALID"  -> "BadRequestError"
      [] outcome = "NOTFOUND" -> "NotFoundError"
      [] outcome = "CONFLICT" -> "ConflictError"
      [] OTHER                -> "Error"

\* The error middleware: what is no AppError becomes a 500.
HttpStatus(outcome) ==
    CASE outcome \in {"CREATED", "RESENT"} -> 200
      [] outcome \notin {"CREATED", "RESENT"} /\ Thrown(outcome) = "Error" -> 500
      [] OTHER                             -> StatusCode(Thrown(outcome))

=============================================================================
