------------------------------- MODULE MCUpload -------------------------------
(* Upload with one tenant typed in and one registered, and two hosts that  *)
(* exports may come from, one of them allowed.                             *)
EXTENDS Upload, TLC

CONSTANTS dam, http, cdn, cdnIdn, other, bad

MCCanonical ==
    dam :> dam @@ http :> http @@ cdn :> cdn @@ cdnIdn :> cdn @@ other :> other
    @@ bad :> NoHost

At(scheme, host) ==
    [scheme |-> scheme, host |-> host, port |-> NoPort, credentials |-> FALSE]

MCConfigs ==
    { [mode |-> "live", dev |-> FALSE, allowedHosts |-> {},
       tenants |-> <<[base |-> At("http", http), api |-> At("http", http)]>>] }

MCTypedUrls == {At("https", dam), At("http", http), At("http", dam), At("https", bad)}

MCExportUrls == {At("https", cdnIdn), At("https", other), At("http", cdn)}
=============================================================================
