SPECIFICATION Spec
CONSTANTS
    a = a
    b = b
    c = c
    Ids = {a, b}
    Groups = {"bank"}
    Instances <- MCInstancesFew
    Settings <- MCSettings
    Defaults <- MCDefaults
    Loopback = "lo"
    XmlModes = {"lab_legacy_xml", "xsd_g2s_message"}
    Legacy = "lab_legacy_xml"
    MaxPort = 20
    MaxInstances = 3
    EditSettings = TRUE
    WritesFail = TRUE
    NoFile = NoFile
    Torn = Torn
INVARIANTS
    SavedManifestResolves
PROPERTIES
    MemoryMatchesManifest
    AcknowledgedIsOnDisk
CHECK_DEADLOCK FALSE
