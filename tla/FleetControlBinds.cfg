SPECIFICATION Spec
CONSTANTS
    a = a
    b = b
    c = c
    Ids = {a, b, c}
    Groups = {"bank"}
    Instances <- MCInstancesHosts
    Settings <- MCSettings
    Defaults <- MCDefaults
    Loopback = "lo"
    XmlModes = {"lab_legacy_xml", "xsd_g2s_message"}
    Legacy = "lab_legacy_xml"
    MaxPort = 20
    MaxInstances = 3
    EditSettings = FALSE
    WritesFail = FALSE
    NoFile = NoFile
    Torn = Torn
INVARIANTS
    ControlBindsUnique
