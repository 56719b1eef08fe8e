------------------------- MODULE RegistryOperations -------------------------
(***************************************************************************)
(* The requests of the generated client (acr/client.go) that the commands  *)
(* use.  A method prepares a request (its verb and what its path names),   *)
(* sends it with retries (AcrClient) and has its responder tell the status *)
(* codes it accepts from errors.                                           *)
(***************************************************************************)
EXTENDS Naturals

\* The status codes of answers that end a request (the codes that make the
\* sender try again are in AcrClient).
Status == {200, 202, 401, 404, 405}

Operation ==
    [ verb     : {"GET", "PATCH", "DELETE"},
      names    : {"catalog", "tags", "tag", "manifests", "manifest"},
      accepted : SUBSET Status ]

GetRepositories == [verb |-> "GET", names |-> "catalog", accepted |-> {200}]
GetAcrTags == [verb |-> "GET", names |-> "tags", accepted |-> {200}]
GetAcrManifests == [verb |-> "GET", names |-> "manifests", accepted |-> {200}]
GetManifest == [verb |-> "GET", names |-> "manifest", accepted |-> {200}]
GetAcrManifestAttributes == [verb |-> "GET", names |-> "manifest", accepted |-> {200}]
UpdateAcrTagAttributes == [verb |-> "PATCH", names |-> "tag", accepted |-> {200}]
UpdateAcrManifestAttributes == [verb |-> "PATCH", names |-> "manifest", accepted |-> {200}]
DeleteAcrTag == [verb |-> "DELETE", names |-> "tag", accepted |-> {200, 202}]

\* Mutant: the responder does not know the status a delete is answered with.
DeleteManifestOnly200 == [verb |-> "DELETE", names |-> "manifest", accepted |-> {200}]

DeleteManifest == [verb |-> "DELETE", names |-> "manifest", accepted |-> {200, 202}]

\* The requests of AcrCLIClientInterface, and the catalog's.
Requests ==
    { GetRepositories, GetAcrTags, GetAcrManifests, GetManifest, GetAcrManifestAttributes,
      UpdateAcrTagAttributes, UpdateAcrManifestAttributes, DeleteAcrTag, DeleteManifest }
=============================================================================
