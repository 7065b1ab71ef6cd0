CONSTANTS
    steady = steady
    flaky = flaky
    s1 = s1
    s2 = s2
    f1 = f1
    a = a
    b = b
    host = host
    label = label
    NoVM = NoVM
    Providers = {steady, flaky}
    Regions = {s1, s2, f1}
    ProviderOf <- TwoClouds
    VMs = {a, b}
    RegionOf <- Places
    Hosts = {host, label}
    HostOf <- OneHost
    ListedHost <- ListedAsName
    Broken = {flaky}
    Grace = 4
    BootTime = 1
    CycleTime = 2
    MaxFaults = 1
    MaxRestarts = 1
SPECIFICATION Spec
PROPERTIES
    NoLiveDeleted
