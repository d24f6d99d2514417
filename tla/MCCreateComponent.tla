------------------------- MODULE MCCreateComponent -------------------------
(* One goroutine: runs of the command, or a call of every method.          *)
EXTENDS CreateComponent

CONSTANTS c1

Request(method, oci, named, version) ==
    [method |-> method, oci |-> oci, named |-> named, version |-> version]

MCRequests ==
    {Request("VendorRepo", FALSE, TRUE, Latest),
     Request("VendorRepo", TRUE, FALSE, 1),
     Request("VendorRepo", TRUE, TRUE, Latest),
     Request("PullRepo", FALSE, TRUE, Latest),
     Request("LatestVersion", FALSE, TRUE, Latest),
     Request("CurrentVersion", FALSE, TRUE, Latest),
     Request("UpdateRepo", TRUE, TRUE, Latest),
     Request("TemplateRepo", FALSE, TRUE, Latest)}

MCTemplates == {"component.go", "component_test.go"}
=============================================================================
