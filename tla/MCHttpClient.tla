---------------------------- MODULE MCHttpClient ----------------------------
(* Instances of HttpClient: the kinds of request the callers make. *)
EXTENDS HttpClient, TLC

GetAndPost == {"HTTPGET", "HTTPPOST", "HTTPMULTIPARTPOST"}
PostAndDownload == {"HTTPPOST", "DOWNLOAD"}
Symmetry == Permutations(Callers)
=============================================================================
